---- MODULE Spec2Model ----
(***************************************************************************)
(* Workflow execution engine of agent-manager: WorkflowRunner (the DAG     *)
(* scheduler), JobRunner (one job) and the parts of the expression context *)
(* they read and write.                                                    *)
(*                                                                         *)
(* Job names are the integers 1..NumJobs (their numeric order is the       *)
(* lexical order of the names).  The asyncio event loop runs one coroutine *)
(* at a time, so every action is the code between two suspension points.   *)
(***************************************************************************)
EXTENDS Integers, Sequences, FiniteSets, TLC

\* ------------------------------------------------------------------ bounds
NumJobs == 3
MaxLimit == 2

Jobs == 1..NumJobs
None == 0
UnknownJob == NumJobs + 1

OutputNames == {"x"}
OutputValues == {"1"}

\* ------------------------------------------------------- models/result.py
NoError == [kind |-> "none", job |-> None, text |-> ""]

Terminal == {"completed", "failed", "skipped", "cancelled"}

JobResult == [status |-> "pending", outputs |-> {}, error_message |-> NoError,
              claude_output |-> "none", input_tokens |-> None, session_id |-> None,
              start_time |-> <<>>]

\* a start that leaves no start time
mark_started_unstamped(result) == [result EXCEPT !.status = "running"]

\* mark_started: RUNNING, and start_time is set (<<>> stands for None)
mark_started(result) == [result EXCEPT !.status = "running", !.start_time = <<"now">>]

mark_completed(result, outputs, claude_output) ==
    [result EXCEPT !.status = "completed",
                   !.outputs = IF outputs # {} THEN outputs ELSE @,
                   !.claude_output = IF claude_output # "none" THEN claude_output ELSE @]

mark_failed(result, error) ==
    [result EXCEPT !.status = "failed", !.error_message = error]

mark_skipped(result, reason) ==
    [result EXCEPT !.status = "skipped", !.error_message = reason]

\* WorkflowRun.error_message: count is the number in "<count> job(s) failed"
NoRunError == [count |-> 0, text |-> "none"]

\* update_stats: the counters of the response are copied (input_tokens stands
\* for input_tokens, output_tokens and cost)
update_stats(result, input_tokens) == [result EXCEPT !.input_tokens = input_tokens]

WorkflowRun_create(job_names) ==
    [status |-> "pending", job_results |-> [n \in job_names |-> JobResult],
     error_message |-> NoRunError]

\* a failure that keeps no error message
run_mark_failed_silent(run_, error) == [run_ EXCEPT !.status = "failed"]

\* WorkflowRun.mark_failed
run_mark_failed(run_, error) == [run_ EXCEPT !.status = "failed", !.error_message = error]

\* WorkflowRun.mark_completed
run_mark_completed(run_) == [run_ EXCEPT !.status = "completed"]

update_job_result(run_, name, result) ==
    [run_ EXCEPT !.job_results = (name :> result) @@ @]

\* a count that takes skipped jobs as failed
failed_job_count_skipped(run_) ==
    Cardinality({n \in DOMAIN run_.job_results :
                    run_.job_results[n].status \in {"failed", "skipped"}})

failed_job_count(run_) ==
    Cardinality({n \in DOMAIN run_.job_results : run_.job_results[n].status = "failed"})

\* ------------------------------------------------- expressions/evaluator.py
ExpressionContext == [job_outputs |-> <<>>, job_statuses |-> <<>>]

\* a context that is never told the outputs of a job
set_outputs_none(ctx, job, outputs) == ctx

set_outputs(ctx, job, outputs) == [ctx EXCEPT !.job_outputs = (job :> outputs) @@ @]

\* a context that records the status of completed jobs only
set_status_completed_only(ctx, job, status) ==
    IF status = "completed"
    THEN [ctx EXCEPT !.job_statuses = (job :> status) @@ @]
    ELSE ctx

set_status(ctx, job, status) == [ctx EXCEPT !.job_statuses = (job :> status) @@ @]

\* resolve("jobs.<job>.status"): the recorded status, "absent" for Python's None
resolve_status(ctx, job) ==
    IF job \in DOMAIN ctx.job_statuses THEN ctx.job_statuses[job] ELSE "absent"

\* resolve("jobs.<job>.outputs.<name>"): the set of recorded values (empty for None)
resolve_output(ctx, job, name) ==
    IF job \in DOMAIN ctx.job_outputs
    THEN {p[2] : p \in {q \in ctx.job_outputs[job] : q[1] = name}}
    ELSE {}

is_truthy(value) == value \notin {"false", "0", "", "null", "none"}

\* The guard expressions a job may carry: none, the builtins, a comparison
\* "jobs.<job>.status == 'completed'", a bare path "jobs.<job>.outputs.x",
\* and an expression whose evaluation raises.
Guards ==
    [kind : {"none", "always()", "success()", "failure()", "raises"}, job : {None}]
    \cup [kind : {"status==completed", "outputs.x"}, job : Jobs]

evaluate(expression, ctx) ==
    CASE expression.kind = "always()" -> TRUE
      [] expression.kind = "success()" ->
            \A n \in DOMAIN ctx.job_statuses :
                ctx.job_statuses[n] \in {"completed", "skipped"}
      [] expression.kind = "failure()" ->
            \E n \in DOMAIN ctx.job_statuses : ctx.job_statuses[n] = "failed"
      [] expression.kind = "status==completed" ->
            resolve_status(ctx, expression.job) = "completed"
      [] expression.kind = "outputs.x" ->
            \E v \in resolve_output(ctx, expression.job, "x") : is_truthy(v)
      [] OTHER -> FALSE

\* the text of a guard expression as the workflow file writes it, with
\* <name> standing for the job name a path mentions
expression_text(expression) ==
    CASE expression.kind = "status==completed" -> "jobs.<name>.status == 'completed'"
      [] expression.kind = "outputs.x" -> "jobs.<name>.outputs.x"
      [] OTHER -> expression.kind

\* ------------------------------------------------------ models/workflow.py
\* A job definition as JobRunner reads it: execution mode, whether it has
\* side-channel context commands, its guard.
JobDefs ==
    { d \in [mode : {"goals", "prompt", "agent"}, context : BOOLEAN,
             if_condition : Guards] :
        d.context => d.mode = "goals" }

\* every other job taken as a dependent
dependents_all(needs_, job_name) == Jobs \ {job_name}

\* a workflow in which no job has dependents
dependents_none(needs_, job_name) == {}

dependents(needs_, job_name) == {n \in Jobs : job_name \in needs_[n]}

RECURSIVE TransitiveNeeds(_, _, _)
\* every job reachable from `frontier` along needs edges, added to `seen`
TransitiveNeeds(needs_, frontier, seen) ==
    LET next == UNION {needs_[n] : n \in frontier} \ seen
    IN  IF next = {} THEN seen ELSE TransitiveNeeds(needs_, next, seen \cup next)

\* the transitive dependencies of a job (contains the job itself iff it is on a cycle)
AllNeeds(needs_, job_name) == TransitiveNeeds(needs_, {job_name}, {})

\* validate_workflow: every dependency exists and the needs graph is acyclic
\* (each job has an execution mode by the definition of JobDefs)
validate_workflow(needs_) ==
    /\ \A n \in Jobs : needs_[n] \subseteq Jobs
    /\ \A n \in Jobs : n \notin AllNeeds(needs_, n)

\* ------------------------------------------------------------------ state
VARIABLES
    needs,                \* workflow.jobs[n].needs, for each job name
    max_concurrent_jobs,  \* WorkflowRunner.max_concurrent_jobs
    dry_run,              \* argument of run()
    single_job,           \* argument of run(); None for run-all
    pc,                   \* position of the coroutine WorkflowRunner.run
    run,                  \* the WorkflowRun: status and job_results
    pending,              \* _run_dag: names not yet started
    running_tasks,        \* _run_dag: names of the tasks created and not yet reaped
    semaphore,            \* value of asyncio.Semaphore(max_concurrent_jobs)
    tasks,                \* per job: where its JobRunner.run coroutine is suspended
    context,              \* the shared ExpressionContext
    executor_calls,       \* per job: number of provider.execute calls
    shell_calls,          \* whether any side-channel command has been run
    session_ids,          \* _run_dag: continuation token of each job that returned one
    executor_errors,      \* per job: the error of the failure the executor reported
    callbacks,            \* per job: the statuses status_callback was called with
    store,                \* the persistence collaborator: the saved run, calls made
    candidate,            \* the job definitions a Workflow is being constructed from
    validation,           \* the outcome of validate_workflow on the candidate
    topological_order,    \* what topological_sort returned for the workflow
    authored,             \* the expression a guard or a prompt span is written as
    evaluation,           \* what the evaluator returned for it
    answered,             \* the text the executor returned and the outputs declared
    extraction,           \* the outputs extracted from it
    current_job,          \* the current-job scope of the shared ExpressionContext
    resolutions,          \* per job: what job.output_dir was resolved to for it
    workflow_jobs,        \* workflow.jobs of a workflow whose definitions are followed
    provider              \* per job: the answer of a provider that always answers alike

vars == <<needs, max_concurrent_jobs, dry_run, single_job, pc, run, pending,
          running_tasks, semaphore, tasks, context, executor_calls, shell_calls,
          session_ids, executor_errors, callbacks, store,
          candidate, validation, topological_order, authored, evaluation,
            answered, extraction, current_job, resolutions,
            workflow_jobs, provider>>

\* the arguments of run() and the constructed workflow it is given
inputs == <<needs, max_concurrent_jobs, dry_run, single_job,
            candidate, validation, topological_order, authored, evaluation,
            answered, extraction, current_job, resolutions,
            workflow_jobs, provider>>

\* WorkflowStats.record_run(run): the run is counted
record_run(stats, run_) == [stats EXCEPT !.total_runs = @ + 1]

\* the store before the run: no record of the run (<<>>), nothing pruned; the
\* statistics of the workflow count the runs recorded from here on
WorkflowStore == [saved |-> <<>>, saves |-> 0, pruned |-> FALSE,
                  stats |-> [total_runs |-> 0]]

\* a store that keeps the first record of a run and ignores the later ones
save_run_first_only(store_, run_) ==
    IF store_.saves > 0 THEN store_
    ELSE [store_ EXCEPT !.saved = <<run_>>, !.saves = @ + 1]

\* store.save_run(run): the record of the run is overwritten, and the
\* statistics of its workflow record the run
save_run(store_, run_) ==
    [store_ EXCEPT !.saved = <<run_>>, !.saves = @ + 1,
                   !.stats = record_run(@, run_)]

\* store.prune_runs(workflow.name)
prune_runs(store_) == [store_ EXCEPT !.pruned = TRUE]

\* the text of an exception that escapes a job task
ExceptionText == "'list' object has no attribute 'items'"

NoTask == [state |-> "none", returned |-> "none", session_id |-> None]

\* outcomes of validate_workflow: the model validator returns self, or raises
\* a ValueError whose message names a job or a cycle path
Valid == [ok |-> TRUE, kind |-> "valid", job |-> None, path |-> <<>>]

NotValidated == [ok |-> FALSE, kind |-> "not validated", job |-> None, path |-> <<>>]

\* no construction in progress: run() is handed a constructed Workflow, whose
\* jobs are read through needs and JobDefs
NoCandidate == [needs |-> [n \in Jobs |-> {}], modes |-> [n \in Jobs |-> {}]]

\* topological_sort not called yet
NotSorted == [result |-> <<>>, raised |-> FALSE]

\* nothing evaluated yet
NotEvaluated == [kind |-> "none", text |-> <<>>, segments |-> <<>>, value |-> <<>>]

\* nothing extracted yet
NotExtracted ==
    [kind |-> "none", sidecar |-> [state |-> "no directory", data |-> <<>>],
     raised |-> FALSE, outputs |-> <<>>]

\* the scope of the current job before any job has set it; the run machine
\* follows the outputs and statuses the context holds, the scope has a
\* machine of its own
NoCurrentJob == <<>>

NothingResolved == [n \in Jobs |-> {}]

\* no definitions followed: the jobs of a run are read through JobDefs, the
\* answers of the provider through LLMResponses
NoJobs == <<>>

NoProvider == <<>>

\* no response under extraction: the outputs of a run are read through
\* ExtractedOutputs
NoResponse == [text |-> <<>>, declared |-> <<>>]

\* no expression under evaluation: the guards of a run are read through JobDefs
NoExpression ==
    [form |-> [kind |-> "word", op |-> <<>>, text |-> <<"true">>, kids |-> <<>>],
     sp |-> <<>>]

\* no failure reported by the executor
NoFailure == [failed |-> FALSE, error |-> <<>>]

Init ==
    /\ needs \in {f \in [Jobs -> SUBSET Jobs] : validate_workflow(f)}
    /\ max_concurrent_jobs \in 1..MaxLimit
    /\ dry_run \in BOOLEAN
    /\ single_job \in {None} \cup Jobs \cup {UnknownJob}
    /\ pc = "init"
    /\ run = [status |-> "none", job_results |-> <<>>, error_message |-> NoRunError]
    /\ pending = {}
    /\ running_tasks = {}
    /\ semaphore = max_concurrent_jobs
    /\ tasks = [n \in Jobs |-> NoTask]
    /\ context = ExpressionContext
    /\ executor_calls = [n \in Jobs |-> 0]
    /\ shell_calls = FALSE
    /\ session_ids = <<>>
    /\ executor_errors = [n \in Jobs |-> NoFailure]
    /\ callbacks = [n \in Jobs |-> <<>>]
    /\ store = WorkflowStore
    /\ candidate = NoCandidate
    /\ validation = Valid
    /\ topological_order = NotSorted
    /\ authored = NoExpression
    /\ evaluation = NotEvaluated
    /\ answered = NoResponse
    /\ extraction = NotExtracted
    /\ current_job = NoCurrentJob
    /\ resolutions = NothingResolved
    /\ workflow_jobs = NoJobs
    /\ provider = NoProvider

\* ------------------------------------------------ execution/job_runner.py
\* A segment of JobRunner.run ends either at a suspension point ("gather":
\* the side-channel commands, "dispatch": provider.execute) or with the
\* JobResult it returns ("done").  shell / executes tell whether the segment
\* launched the context commands / called the executor.
Segment(state, result, shell, executes) ==
    [state |-> state, result |-> result, shell |-> shell, executes |-> executes]

\* the values the output extractor can return for the declared outputs
ExtractedOutputs == {{}} \cup {{<<name, v>>} : name \in OutputNames, v \in OutputValues}

\* _run_goals from step 2 on: the prompt is built, then preview or dispatch
run_goals_after_context(result, dry, shell) ==
    IF dry
    THEN Segment("done", mark_completed(result, {}, "[DRY RUN] Would execute with context"),
                 shell, FALSE)
    ELSE Segment("dispatch", result, shell, TRUE)

\* a goals job that gathers its context in a dry run too
run_goals_always_gathers(job, result, dry) ==
    IF job.context
    THEN Segment("gather", result, TRUE, FALSE)
    ELSE run_goals_after_context(result, dry, FALSE)

\* _run_goals up to its first suspension point
run_goals(job, result, dry) ==
    IF job.context /\ ~dry
    THEN Segment("gather", result, TRUE, FALSE)
    ELSE run_goals_after_context(result, dry, FALSE)

\* a single-prompt job whose dry-run test comes before the prompt is built
run_single_prompt_dry_first(job, result, dry, built) ==
    IF dry
    THEN Segment("done", mark_completed(result, {}, "[DRY RUN] Would execute"), FALSE, FALSE)
    ELSE IF ~built
    THEN Segment("done", mark_failed(result, [kind |-> "build", job |-> None, text |-> ""]), FALSE, FALSE)
    ELSE Segment("dispatch", result, FALSE, TRUE)

\* _run_single_prompt up to its suspension point; built is FALSE when
\* _build_prompt_and_config raises
run_single_prompt(job, result, dry, built) ==
    IF ~built
    THEN Segment("done", mark_failed(result, [kind |-> "build", job |-> None, text |-> ""]), FALSE, FALSE)
    ELSE IF dry
    THEN Segment("done", mark_completed(result, {}, "[DRY RUN] Would execute"), FALSE, FALSE)
    ELSE Segment("dispatch", result, FALSE, TRUE)

\* whether _build_prompt_and_config returns (TRUE) or raises (FALSE); it is
\* called for prompt and agent jobs only
BuildOutcomes(job) == IF job.mode = "goals" THEN {TRUE} ELSE BOOLEAN

\* a job runner that takes a guard that cannot be evaluated as false
JobRunner_run_error_skips(job, ctx, dry, built) ==
    LET result == mark_started(JobResult)
        body == IF job.mode = "goals"
                THEN run_goals(job, result, dry)
                ELSE run_single_prompt(job, result, dry, built)
    IN  IF job.if_condition.kind = "none" THEN body
        ELSE IF job.if_condition.kind = "raises" \/ ~evaluate(job.if_condition, ctx)
        THEN Segment("done",
                     mark_skipped(result, [kind |-> "condition false", job |-> None,
                                           text |-> expression_text(job.if_condition)]),
                     FALSE, FALSE)
        ELSE body

\* JobRunner.run up to its first suspension point
JobRunner_run(job, ctx, dry, built) ==
    LET result == mark_started(JobResult)
        body == IF job.mode = "goals"
                THEN run_goals(job, result, dry)
                ELSE run_single_prompt(job, result, dry, built)
    IN  IF job.if_condition.kind = "none" THEN body
        ELSE IF job.if_condition.kind = "raises"
        THEN Segment("done",
                     mark_failed(result, [kind |-> "condition error", job |-> None,
                                          text |-> "maximum recursion depth exceeded"]),
                     FALSE, FALSE)
        ELSE IF ~evaluate(job.if_condition, ctx)
        THEN Segment("done",
                     mark_skipped(result, [kind |-> "condition false", job |-> None,
                                           text |-> expression_text(job.if_condition)]),
                     FALSE, FALSE)
        ELSE body

\* LLMResponse.error: <<>> for None, else the one-element sequence of the text
ExecutorErrors == {<<>>, <<"">>, <<"exit code 1">>}

\* the answers provider.execute can give to the dispatch of job_name: the
\* continuation token of a dispatch is named after the job; every answer
\* carries token counters
LLMResponses(job_name) ==
    { r \in [success : BOOLEAN, error : ExecutorErrors, input_tokens : {1},
              session_id : {None, job_name}] :
        r.success => r.error = <<>> }

\* response.error or "Unknown error"
error_or_unknown(error) ==
    IF error = <<>> \/ error = <<"">> THEN "Unknown error" ELSE error[1]

\* a failure that loses the executor's error text
executor_returned_unknown(result, response, extracted) ==
    IF ~response.success
    THEN mark_failed(result, [kind |-> "executor", job |-> None, text |-> "Unknown error"])
    ELSE mark_completed([update_stats(result, response.input_tokens)
                            EXCEPT !.session_id = response.session_id],
                        extracted, "response")

\* the code after provider.execute returns; extracted is what _extract_outputs
\* gives for the declared outputs (empty when the job declares none)
executor_returned(result, response, extracted) ==
    IF ~response.success
    THEN mark_failed(result, [kind |-> "executor", job |-> None,
                              text |-> error_or_unknown(response.error)])
    ELSE mark_completed([update_stats(result, response.input_tokens)
                            EXCEPT !.session_id = response.session_id],
                        extracted, "response")

\* the job a job may name to continue the conversation of (None: no one)
ContinueSessions == {None} \cup Jobs

\* a dispatch that never continues a conversation
continuation_none(continue_session, session_ids_) == None

\* a continuation that takes the named job itself for its token
continuation_named(continue_session, session_ids_) == continue_session

\* the continuation token passed to provider.execute; the argument session_ids
\* is <<>> for None (single-job mode) and <<map>> for the map of run-all
continuation(continue_session, session_ids_) ==
    IF continue_session # None /\ session_ids_ # <<>> /\ DOMAIN session_ids_[1] # {}
    THEN IF continue_session \in DOMAIN session_ids_[1]
         THEN session_ids_[1][continue_session] ELSE None
    ELSE None

\* ------------------------------------------- execution/workflow_runner.py
\* a readiness test that is content with one satisfied dependency
job_is_ready_any(job_name, needs_, run_) ==
    \/ needs_[job_name] = {}
    \/ \E dep \in needs_[job_name] :
          /\ dep \in DOMAIN run_.job_results
          /\ run_.job_results[dep].status \in {"completed", "skipped"}

\* a readiness test that takes only completed dependencies as satisfied
job_is_ready_completed_only(job_name, needs_, run_) ==
    \A dep \in needs_[job_name] :
        /\ dep \in DOMAIN run_.job_results
        /\ run_.job_results[dep].status = "completed"

job_is_ready(job_name, needs_, run_) ==
    \A dep \in needs_[job_name] :
        /\ dep \in DOMAIN run_.job_results
        /\ run_.job_results[dep].status \in {"completed", "skipped"}

\* a set as the sequence sorted() makes of it
RECURSIVE sorted(_)
sorted(S) ==
    IF S = {} THEN <<>>
    ELSE LET m == CHOOSE x \in S : \A y \in S : x <= y
         IN  <<m>> \o sorted(S \ {m})

\* WorkflowRun.ready_jobs(workflow): the sorted names of the results that are
\* pending, belong to a job of the workflow and have every need completed; a
\* need without a result counts as pending
ready_jobs(run_, needs_) ==
    sorted({name \in DOMAIN run_.job_results :
              /\ run_.job_results[name].status = "pending"
              /\ name \in Jobs
              /\ \A dep \in needs_[name] :
                    (IF dep \in DOMAIN run_.job_results
                     THEN run_.job_results[dep] ELSE JobResult).status = "completed"})

RECURSIVE skip_dependents(_, _, _)
RECURSIVE skip_each(_, _, _, _)
\* _skip_dependents on st = [run, pending]; returns the updated pair
skip_dependents(failed_job, needs_, st) ==
    skip_each(failed_job, sorted(dependents(needs_, failed_job)), needs_, st)

\* a cascade that does not test whether the dependent is still pending
skip_each_unchecked(failed_job, deps, needs_, st) ==
    IF deps = <<>> THEN st
    ELSE LET dep == Head(deps)
             result == mark_skipped(st.run.job_results[dep],
                                    [kind |-> "dependency failed", job |-> failed_job, text |-> ""])
             st1 == [run |-> update_job_result(st.run, dep, result),
                     pending |-> st.pending \ {dep}]
         IN  skip_each(failed_job, Tail(deps), needs_, skip_dependents(dep, needs_, st1))

\* a cascade that marks the direct dependents only
skip_each_direct(failed_job, deps, needs_, st) ==
    IF deps = <<>> THEN st
    ELSE LET dep == Head(deps)
         IN  IF dep \in st.pending
             THEN LET result == mark_skipped(st.run.job_results[dep],
                                             [kind |-> "dependency failed", job |-> failed_job, text |-> ""])
                      st1 == [run |-> update_job_result(st.run, dep, result),
                              pending |-> st.pending \ {dep}]
                  IN  skip_each(failed_job, Tail(deps), needs_, st1)
             ELSE skip_each(failed_job, Tail(deps), needs_, st)

\* a cascade that marks a dependent skipped and leaves it in the pending set
skip_each_keep_pending(failed_job, deps, needs_, st) ==
    IF deps = <<>> THEN st
    ELSE LET dep == Head(deps)
         IN  IF dep \in st.pending /\ st.run.job_results[dep].status = "pending"
             THEN LET result == mark_skipped(st.run.job_results[dep],
                                             [kind |-> "dependency failed", job |-> failed_job, text |-> ""])
                      st1 == [run |-> update_job_result(st.run, dep, result),
                              pending |-> st.pending]
                  IN  skip_each(failed_job, Tail(deps), needs_,
                                skip_dependents(dep, needs_, st1))
             ELSE skip_each(failed_job, Tail(deps), needs_, st)

\* the for loop of _skip_dependents over the remaining dependents
skip_each(failed_job, deps, needs_, st) ==
    IF deps = <<>> THEN st
    ELSE LET dep == Head(deps)
         IN  IF dep \in st.pending
             THEN LET result == mark_skipped(st.run.job_results[dep],
                                             [kind |-> "dependency failed", job |-> failed_job, text |-> ""])
                      st1 == [run |-> update_job_result(st.run, dep, result),
                              pending |-> st.pending \ {dep}]
                  IN  skip_each(failed_job, Tail(deps), needs_,
                                skip_dependents(dep, needs_, st1))
             ELSE skip_each(failed_job, Tail(deps), needs_, st)

\* the orders in which `for task in done` can visit a set
Orders(S) ==
    {o \in [1..Cardinality(S) -> S] : \A i, k \in DOMAIN o : i # k => o[i] # o[k]}

RECURSIVE reap(_, _, _, _)
\* the loop over the done tasks: a failed job's dependents are skipped
reap(order, needs_, returned, st) ==
    IF order = <<>> THEN st
    ELSE LET job_name == Head(order)
         IN  reap(Tail(order), needs_, returned,
                  IF returned[job_name] = "failed"
                  THEN skip_dependents(job_name, needs_, st)
                  ELSE st)

\* a limiter that never makes a task wait
locked_never(value) == FALSE

\* asyncio.Semaphore: acquire() suspends the caller while the value is 0
locked(value) == value = 0

\* a release that is lost
release_lost(value) == value

\* asyncio.Semaphore.release(), run when `async with semaphore` is left
release(value) == value + 1

\* ---------------------------------------------------------------- actions
\* run(): the run is created, marked started and saved; _run_dag sets up
\* pending (every job) before its loop
Run ==
    /\ pc = "init"
    /\ run' = [WorkflowRun_create(IF single_job # None THEN {single_job} ELSE Jobs)
                  EXCEPT !.status = "running"]
    /\ pending' = IF single_job # None THEN {} ELSE Jobs
    /\ store' = save_run(store, run')
    /\ pc' = IF single_job # None THEN "single" ELSE "dag"
    /\ UNCHANGED <<inputs, running_tasks, semaphore, tasks, context,
                   executor_calls, shell_calls, session_ids, executor_errors, callbacks>>

\* _run_dag: one pass of the while loop from its test to asyncio.wait
RunDag ==
    /\ pc = "dag"
    /\ IF pending = {} /\ running_tasks = {}
       THEN /\ pc' = "finalize"
            /\ UNCHANGED <<run, pending, running_tasks, tasks>>
       ELSE LET ready == {name \in pending : job_is_ready(name, needs, run)}
                pending1 == pending \ ready
                running1 == running_tasks \cup ready
            IN  IF running1 = {} /\ pending1 # {}
                THEN /\ run' = [run EXCEPT !.job_results =
                                  [n \in DOMAIN @ |->
                                     IF n \in pending1
                                     THEN mark_skipped(@[n],
                                            [kind |-> "dependencies not satisfied",
                                             job |-> None, text |-> ""])
                                     ELSE @[n]]]
                     /\ pending' = pending1
                     /\ pc' = "finalize"
                     /\ UNCHANGED <<running_tasks, tasks>>
                ELSE /\ pending' = pending1
                     /\ running_tasks' = running1
                     /\ tasks' = [n \in Jobs |->
                                    IF n \in ready
                                    THEN [NoTask EXCEPT !.state = "created"]
                                    ELSE tasks[n]]
                     /\ pc' = IF running1 # {} THEN "wait" ELSE "dag"
                     /\ run' = run
    /\ UNCHANGED <<inputs, semaphore, context, executor_calls, shell_calls,
                   session_ids, executor_errors, callbacks, store>>

\* status_callback(job_name, status) for each status of the sequence
status_callback(job_name, statuses) ==
    callbacks' = [callbacks EXCEPT ![job_name] = @ \o statuses]

\* run_job after job_runner.run returned: context, run and task result
JobDone(job_name, result) ==
    /\ context' = set_status(set_outputs(context, job_name, result.outputs),
                             job_name, result.status)
    /\ session_ids' = IF result.session_id # None
                       THEN (job_name :> result.session_id) @@ session_ids
                       ELSE session_ids
    /\ run' = update_job_result(run, job_name, result)
    /\ store' = save_run(store, run')
    /\ tasks' = [tasks EXCEPT ![job_name] =
                    [NoTask EXCEPT !.state = "done", !.returned = result.status]]

\* the suspended frame of JobRunner.run; a frame suspended in the dispatch
\* holds the continuation token it passed, read from the job's continue_session
Suspended(job_name, seg, session_ids_) ==
    \E continue_session \in ContinueSessions :
       tasks' = [tasks EXCEPT ![job_name] =
                    [NoTask EXCEPT
                        !.state = seg.state,
                        !.session_id = IF seg.state = "dispatch"
                                       THEN continuation(continue_session, session_ids_)
                                       ELSE None]]

\* a dispatch that is retried once
Calls_retry(job_name, seg) ==
    /\ executor_calls' = [executor_calls EXCEPT ![job_name] =
                            IF seg.executes THEN @ + 2 ELSE @]
    /\ shell_calls' = (shell_calls \/ seg.shell)

\* the collaborator calls a segment makes
Calls(job_name, seg) ==
    /\ executor_calls' = [executor_calls EXCEPT ![job_name] =
                            IF seg.executes THEN @ + 1 ELSE @]
    /\ shell_calls' = (shell_calls \/ seg.shell)

\* run_job for the job definition `job`, from the semaphore taken to the first
\* suspension point of JobRunner.run, or to its end when nothing is awaited
run_job(job_name, job, built) ==
    LET seg == JobRunner_run(job, context, dry_run, built)
    IN  /\ Calls(job_name, seg)
        /\ IF seg.state = "done"
           THEN /\ JobDone(job_name, seg.result)
                /\ status_callback(job_name, <<"running", seg.result.status>>)
                /\ semaphore' = semaphore
           ELSE /\ Suspended(job_name, seg, <<session_ids>>)
                /\ status_callback(job_name, <<"running">>)
                /\ semaphore' = semaphore - 1
                /\ UNCHANGED <<context, run, session_ids, store>>

\* run_job: the task takes the semaphore and runs JobRunner.run to its first
\* suspension point, or to its end when nothing is awaited
TaskStart(job_name) ==
    /\ pc = "wait"
    /\ tasks[job_name].state = "created"
    /\ ~locked(semaphore)
    /\ \E job \in JobDefs : \E built \in BuildOutcomes(job) :
         run_job(job_name, job, built)
    /\ UNCHANGED <<inputs, pc, pending, running_tasks, executor_errors>>

\* _run_single_job: the job is looked up and JobRunner.run is awaited
RunSingleJob ==
    /\ pc = "single"
    /\ IF single_job \notin Jobs
       THEN /\ run' = update_job_result(run, single_job,
                        mark_failed(run.job_results[single_job],
                                    [kind |-> "not found", job |-> None, text |-> ""]))
            /\ pc' = "finalize"
            /\ UNCHANGED <<tasks, executor_calls, shell_calls, callbacks>>
       ELSE \E job \in JobDefs : \E built \in BuildOutcomes(job) :
              LET seg == JobRunner_run(job, context, dry_run, built)
              IN  /\ Calls(single_job, seg)
                  /\ IF seg.state = "done"
                     THEN /\ run' = update_job_result(run, single_job, seg.result)
                          /\ tasks' = [tasks EXCEPT ![single_job] =
                                         [NoTask EXCEPT !.state = "done",
                                                        !.returned = seg.result.status]]
                          /\ status_callback(single_job, <<"running", seg.result.status>>)
                          /\ pc' = "finalize"
                     ELSE /\ Suspended(single_job, seg, <<>>)
                          /\ status_callback(single_job, <<"running">>)
                          /\ pc' = "await_job"
                          /\ run' = run
    /\ UNCHANGED <<inputs, pending, running_tasks, semaphore, context, session_ids,
                   executor_errors, store>>

\* the side-channel commands of a goals job have all returned
ContextGathered(job_name) ==
    /\ pc \in {"wait", "await_job"}
    /\ tasks[job_name].state = "gather"
    /\ LET seg == run_goals_after_context(mark_started(JobResult), dry_run, FALSE)
       IN  /\ Calls(job_name, seg)
           /\ Suspended(job_name, seg, IF pc = "wait" THEN <<session_ids>> ELSE <<>>)
    /\ UNCHANGED <<inputs, pc, run, pending, running_tasks, semaphore, context,
                   session_ids, executor_errors, callbacks, store>>

\* the rest of the job after provider.execute returned `response` and the
\* outputs read from it are `extracted`
provider_returned(job_name, response, extracted) ==
    LET result == executor_returned(mark_started(JobResult), response, extracted)
    IN  /\ executor_errors' = [executor_errors EXCEPT ![job_name] =
                                  IF response.success THEN @
                                  ELSE [failed |-> TRUE, error |-> response.error]]
        /\ status_callback(job_name, <<result.status>>)
        /\ IF pc = "wait"
           THEN /\ JobDone(job_name, result)
                /\ semaphore' = release(semaphore)
                /\ pc' = pc
           ELSE /\ run' = update_job_result(run, job_name, result)
                /\ tasks' = [tasks EXCEPT ![job_name] =
                               [NoTask EXCEPT !.state = "done",
                                              !.returned = result.status]]
                /\ pc' = "finalize"
                /\ UNCHANGED <<semaphore, context, session_ids, store>>

\* provider.execute returns; the job's result is recorded
ExecutorReturns(job_name) ==
    /\ pc \in {"wait", "await_job"}
    /\ tasks[job_name].state = "dispatch"
    /\ \E response \in LLMResponses(job_name), extracted \in ExtractedOutputs :
         provider_returned(job_name, response, extracted)
    /\ UNCHANGED <<inputs, pending, running_tasks, executor_calls, shell_calls>>

\* a control loop that goes on only when every running task has finished
TasksDone_all ==
    /\ pc = "wait"
    /\ running_tasks # {}
    /\ \A n \in running_tasks : tasks[n].state = "done"
    /\ \E order \in Orders(running_tasks) :
         LET st == reap(order, needs, [n \in Jobs |-> tasks[n].returned],
                        [run |-> run, pending |-> pending])
         IN  /\ run' = st.run
             /\ pending' = st.pending
             /\ running_tasks' = {}
             /\ pc' = "dag"
    /\ UNCHANGED <<inputs, semaphore, tasks, context, executor_calls, shell_calls,
                   session_ids, executor_errors, callbacks, store>>

\* asyncio.wait returns: the finished tasks are reaped in the order of the set
\* `done`, failures cascade; task.result() of a task that raised re-raises its
\* exception, which ends the loop and leaves _run_dag
TasksDone ==
    /\ pc = "wait"
    /\ LET done == {n \in running_tasks : tasks[n].state \in {"done", "raised"}}
       IN  /\ done # {}
           /\ \E order \in Orders(done) :
                LET raised == {i \in DOMAIN order : tasks[order[i]].state = "raised"}
                    last == IF raised = {} THEN Len(order)
                            ELSE (CHOOSE i \in raised : \A k \in raised : i <= k) - 1
                    st == reap(SubSeq(order, 1, last), needs,
                               [n \in Jobs |-> tasks[n].returned],
                               [run |-> run, pending |-> pending])
                IN  /\ run' = st.run
                    /\ pending' = st.pending
                    /\ running_tasks' = running_tasks \ {order[i] : i \in 1..last}
                    /\ pc' = IF raised = {} THEN "dag" ELSE "raised"
    /\ UNCHANGED <<inputs, semaphore, tasks, context, executor_calls, shell_calls,
                   session_ids, executor_errors, callbacks, store>>

\* run(): the final status, the final save and the pruning
Finalize ==
    /\ pc \in {"finalize", "raised"}
    /\ run' = IF pc = "raised"
              THEN run_mark_failed(run, [count |-> 0, text |-> ExceptionText])
              ELSE IF failed_job_count(run) > 0
              THEN run_mark_failed(run, [count |-> failed_job_count(run),
                                         text |-> "job(s) failed"])
              ELSE run_mark_completed(run)
    /\ store' = prune_runs(save_run(store, run'))
    /\ pc' = "returned"
    /\ UNCHANGED <<inputs, pending, running_tasks, semaphore, tasks, context,
                   executor_calls, shell_calls, session_ids, executor_errors, callbacks>>

\* a job task ends with an exception instead of a result: the executor
\* answered, and reading the outputs raised (a sidecar file that holds a JSON
\* list); `async with` releases the limiter, nothing is recorded.  In
\* single-job mode the exception goes straight to run().
TaskRaises(job_name) ==
    /\ pc \in {"wait", "await_job"}
    /\ tasks[job_name].state = "dispatch"
    /\ tasks' = [tasks EXCEPT ![job_name] =
                    [NoTask EXCEPT !.state = "raised", !.returned = "raised"]]
    /\ semaphore' = IF pc = "wait" THEN release(semaphore) ELSE semaphore
    /\ pc' = IF pc = "wait" THEN pc ELSE "raised"
    /\ UNCHANGED <<inputs, run, pending, running_tasks, context, executor_calls,
                   shell_calls, session_ids, executor_errors, callbacks, store>>

Next ==
    \/ Run
    \/ RunDag
    \/ RunSingleJob
    \/ \E job_name \in Jobs : TaskStart(job_name)
    \/ \E job_name \in Jobs : ContextGathered(job_name)
    \/ \E job_name \in Jobs : ExecutorReturns(job_name)
    \/ TasksDone
    \/ Finalize

Spec == Init /\ [][Next]_vars

\* the runs in which a job task may raise
NextExc ==
    \/ Next
    \/ \E job_name \in Jobs : TaskRaises(job_name)

SpecExc == Init /\ [][NextExc]_vars

\* the event loop keeps running whatever is runnable, and every executor
\* dispatch and side-channel command returns
FairSpec == Spec /\ WF_vars(Next)


\* ------------------------------------- models/workflow.py: construction
\* the execution modes a job definition gives: "goals" for a non-empty goals
\* list, "prompt" for a prompt, "agent" for an agent reference
ModeSets == {{}, {"goals"}, {"prompt"}, {"prompt", "agent"}}

\* what a Workflow can be constructed from: per job its needs (which may
\* name a job the workflow does not have) and the modes it defines
Candidates ==
    [needs : [Jobs -> SUBSET (Jobs \cup {UnknownJob})], modes : [Jobs -> ModeSets]]

\* the orders in which the job names can be written in the workflow file
FileOrders == Orders(Jobs)

\* the names of S as a list, in the order `order` ranks them; a name the
\* workflow does not have comes last
listed(S, order) ==
    SelectSeq(order, LAMBDA x : x \in S) \o
        (IF UnknownJob \in S THEN <<UnknownJob>> ELSE <<>>)

\* job.needs of self.jobs.get(job_name): nothing for a name that is not a job
needs_of(needs_, lists, job_name) ==
    IF job_name \in Jobs THEN listed(needs_[job_name], lists) ELSE <<>>

RECURSIVE dfs(_, _, _, _, _)
RECURSIVE dfs_each(_, _, _, _, _)
\* the loop `for dep in job.needs: dfs(dep, path + [job_name])`
dfs_each(needs_, lists, deps, path, st) ==
    IF deps = <<>> THEN st
    ELSE dfs_each(needs_, lists, Tail(deps), path,
                  dfs(needs_, lists, Head(deps), path, st))

\* dfs of _detect_cycles; st carries visited, rec_stack and the cycle path
\* of the ValueError once it is raised (nothing runs after the raise)
dfs(needs_, lists, job_name, path, st) ==
    IF st.cycle_path # <<>> THEN st
    ELSE IF job_name \in st.rec_stack
    THEN [st EXCEPT !.cycle_path = path \o <<job_name>>]
    ELSE IF job_name \in st.visited THEN st
    ELSE LET entered == [st EXCEPT !.visited = @ \cup {job_name},
                                   !.rec_stack = @ \cup {job_name}]
             left == dfs_each(needs_, lists, needs_of(needs_, lists, job_name),
                              path \o <<job_name>>, entered)
         IN  IF left.cycle_path # <<>> THEN left
             ELSE [left EXCEPT !.rec_stack = @ \ {job_name}]

\* _detect_cycles: dfs from every job in the order of self.jobs; the result
\* is the cycle path of the error, <<>> when none is raised
detect_cycles(needs_, keys, lists) ==
    dfs_each(needs_, lists, keys, <<>>,
             [visited |-> {}, rec_stack |-> {}, cycle_path |-> <<>>]).cycle_path

\* a validator that does not look at the execution modes
validate_any_mode(c, keys, lists) ==
    LET unknown == SelectSeq(keys, LAMBDA n : ~(c.needs[n] \subseteq Jobs))
        cycle_path == detect_cycles(c.needs, keys, lists)
    IN  IF unknown # <<>>
        THEN [ok |-> FALSE, kind |-> "unknown job", job |-> Head(unknown), path |-> <<>>]
        ELSE IF cycle_path # <<>>
        THEN [ok |-> FALSE, kind |-> "cycle", job |-> None, path |-> cycle_path]
        ELSE Valid

\* a validator that does not search for cycles
validate_no_cycle_check(c, keys, lists) ==
    LET no_mode == SelectSeq(keys, LAMBDA n : c.modes[n] = {})
        unknown == SelectSeq(keys, LAMBDA n : ~(c.needs[n] \subseteq Jobs))
    IN  IF no_mode # <<>>
        THEN [ok |-> FALSE, kind |-> "no mode", job |-> Head(no_mode), path |-> <<>>]
        ELSE IF unknown # <<>>
        THEN [ok |-> FALSE, kind |-> "unknown job", job |-> Head(unknown), path |-> <<>>]
        ELSE Valid

\* Workflow.validate_workflow on a candidate whose jobs are written in the
\* order keys and whose needs lists are written in the order lists: the
\* first job without agent, prompt or goals; else the first job with a
\* dependency that is not a job; else the cycle search
validate(c, keys, lists) ==
    LET no_mode == SelectSeq(keys, LAMBDA n : c.modes[n] = {})
        unknown == SelectSeq(keys, LAMBDA n : ~(c.needs[n] \subseteq Jobs))
        cycle_path == detect_cycles(c.needs, keys, lists)
    IN  IF no_mode # <<>>
        THEN [ok |-> FALSE, kind |-> "no mode", job |-> Head(no_mode), path |-> <<>>]
        ELSE IF unknown # <<>>
        THEN [ok |-> FALSE, kind |-> "unknown job", job |-> Head(unknown), path |-> <<>>]
        ELSE IF cycle_path # <<>>
        THEN [ok |-> FALSE, kind |-> "cycle", job |-> None, path |-> cycle_path]
        ELSE Valid

RECURSIVE visit(_, _, _, _)
RECURSIVE visit_each(_, _, _, _)
\* the loop `for dep in job.needs: visit(dep)`
visit_each(needs_, lists, deps, st) ==
    IF deps = <<>> THEN st
    ELSE visit_each(needs_, lists, Tail(deps), visit(needs_, lists, Head(deps), st))

\* a visit that appends the job before it visits its needs
visit_appends_first(needs_, lists, job_name, st) ==
    IF st.raised THEN st
    ELSE IF job_name \in st.temp_mark THEN [st EXCEPT !.raised = TRUE]
    ELSE IF job_name \in st.visited THEN st
    ELSE LET marked == [st EXCEPT !.temp_mark = @ \cup {job_name},
                                  !.visited = @ \cup {job_name},
                                  !.result = Append(@, job_name)]
             left == visit_each(needs_, lists, needs_of(needs_, lists, job_name), marked)
         IN  IF left.raised THEN left
             ELSE [left EXCEPT !.temp_mark = @ \ {job_name}]

\* visit of topological_sort; st carries result, visited, temp_mark and
\* whether the ValueError for a cycle was raised
visit(needs_, lists, job_name, st) ==
    IF st.raised THEN st
    ELSE IF job_name \in st.temp_mark THEN [st EXCEPT !.raised = TRUE]
    ELSE IF job_name \in st.visited THEN st
    ELSE LET marked == [st EXCEPT !.temp_mark = @ \cup {job_name}]
             left == visit_each(needs_, lists, needs_of(needs_, lists, job_name), marked)
         IN  IF left.raised THEN left
             ELSE [left EXCEPT !.temp_mark = @ \ {job_name},
                               !.visited = @ \cup {job_name},
                               !.result = Append(@, job_name)]

\* Workflow.topological_sort: visit over sorted(self.jobs.keys())
topological_sort(needs_, lists) ==
    LET st == visit_each(needs_, lists, sorted(Jobs),
                         [result |-> <<>>, visited |-> {}, temp_mark |-> {},
                          raised |-> FALSE])
    IN  [result |-> st.result, raised |-> st.raised]

\* a Workflow is being constructed from some candidate; no run exists
InitWorkflow ==
    /\ candidate \in Candidates
    /\ validation = NotValidated
    /\ topological_order = NotSorted
    /\ authored = NoExpression
    /\ evaluation = NotEvaluated
    /\ answered = NoResponse
    /\ extraction = NotExtracted
    /\ current_job = NoCurrentJob
    /\ resolutions = NothingResolved
    /\ workflow_jobs = NoJobs
    /\ provider = NoProvider
    /\ needs = [n \in Jobs |-> {}]
    /\ max_concurrent_jobs = 1
    /\ dry_run = FALSE
    /\ single_job = None
    /\ pc = "init"
    /\ run = [status |-> "none", job_results |-> <<>>, error_message |-> NoRunError]
    /\ pending = {}
    /\ running_tasks = {}
    /\ semaphore = max_concurrent_jobs
    /\ tasks = [n \in Jobs |-> NoTask]
    /\ context = ExpressionContext
    /\ executor_calls = [n \in Jobs |-> 0]
    /\ shell_calls = FALSE
    /\ session_ids = <<>>
    /\ executor_errors = [n \in Jobs |-> NoFailure]
    /\ callbacks = [n \in Jobs |-> <<>>]
    /\ store = WorkflowStore

\* what the construction of a workflow leaves alone
run_state == <<needs, max_concurrent_jobs, dry_run, single_job, pc, run, pending,
               running_tasks, semaphore, tasks, context, executor_calls,
               shell_calls, session_ids, executor_errors, callbacks, store,
               authored, evaluation, answered, extraction, current_job, resolutions,
            workflow_jobs, provider>>

\* the model validator runs once when the Workflow is constructed
Validate ==
    /\ validation = NotValidated
    /\ \E keys \in FileOrders, lists \in FileOrders :
         validation' = validate(candidate, keys, lists)
    /\ UNCHANGED <<candidate, topological_order, run_state>>

\* topological_sort is a method of a constructed Workflow
TopologicalSort ==
    /\ validation.ok
    /\ topological_order = NotSorted
    /\ \E lists \in FileOrders :
         topological_order' = topological_sort(candidate.needs, lists)
    /\ UNCHANGED <<candidate, validation, run_state>>

NextWorkflow ==
    \/ Validate
    \/ TopologicalSort

SpecWorkflow == InitWorkflow /\ [][NextWorkflow]_vars

\* ------------------------------------ expressions/evaluator.py: the text
\* A text is the sequence of its characters, except that a run of letters,
\* digits, dots and underscores is one element (a word); "" is <<>>.
NoQuote == ""

Quotes == {"'", "\""}

RECURSIVE lstrip(_)
lstrip(s) == IF s # <<>> /\ Head(s) = " " THEN lstrip(Tail(s)) ELSE s

RECURSIVE rstrip(_)
rstrip(s) == IF s # <<>> /\ s[Len(s)] = " " THEN rstrip(SubSeq(s, 1, Len(s) - 1)) ELSE s

\* str.strip()
strip(s) == rstrip(lstrip(s))

\* str.startswith / str.endswith
startswith(s, prefix) == Len(s) >= Len(prefix) /\ SubSeq(s, 1, Len(prefix)) = prefix

endswith(s, suffix) ==
    Len(s) >= Len(suffix) /\ SubSeq(s, Len(s) - Len(suffix) + 1, Len(s)) = suffix

\* s[i:] for a 1-based position i
from(s, i) == SubSeq(s, i, Len(s))

\* str.find: the position of the first occurrence, 0 when there is none
find(s, sub) ==
    LET at == {i \in 1..Len(s) : startswith(from(s, i), sub)}
    IN  IF at = {} THEN 0 ELSE CHOOSE i \in at : \A k \in at : i <= k

\* str.lower() of a word
lower(word) ==
    CASE word = "True" -> "true"
      [] word = "False" -> "false"
      [] OTHER -> word

\* a recorded string as a text
text_of(value) == IF value = "" THEN <<>> ELSE <<value>>

\* the variable paths an expression can spell: jobs.<job>.status,
\* jobs.<job>.outputs.<name>, and spellings that match no pattern of resolve
Paths ==
    ("jobs.1.status" :> [kind |-> "status", job |-> 1, name |-> ""]) @@
    ("jobs.2.status" :> [kind |-> "status", job |-> 2, name |-> ""]) @@
    ("jobs.1.outputs.x" :> [kind |-> "outputs", job |-> 1, name |-> "x"]) @@
    ("jobs.2.outputs.x" :> [kind |-> "outputs", job |-> 2, name |-> "x"]) @@
    ("jobs.1.result" :> [kind |-> "variable", job |-> None, name |-> ""])

\* ExpressionContext.resolve: <<>> for None, <<value>> for a value; a text
\* that is not one word has no dot-separated pattern with a recorded name,
\* and no workflow variable is ever set
resolve(ctx, path) ==
    IF Len(path) # 1 \/ path[1] \notin DOMAIN Paths THEN <<>>
    ELSE LET p == Paths[path[1]]
         IN  CASE p.kind = "status" ->
                    IF p.job \in DOMAIN ctx.job_statuses
                    THEN <<text_of(ctx.job_statuses[p.job])>> ELSE <<>>
               [] p.kind = "outputs" ->
                    LET values == resolve_output(ctx, p.job, p.name)
                    IN  IF values = {} THEN <<>>
                        ELSE <<text_of(CHOOSE v \in values : TRUE)>>
               [] OTHER -> <<>>

\* _is_truthy of a text
is_truthy_text(value) ==
    CASE value = <<>> -> is_truthy("")
      [] Len(value) = 1 -> is_truthy(lower(value[1]))
      [] OTHER -> TRUE

RECURSIVE split_scan(_, _, _, _, _, _)
\* the while loop of _split_by_operator from position i
split_scan(expression, operator, i, current, in_quote, parts) ==
    IF i > Len(expression)
    THEN IF current # <<>> THEN Append(parts, current) ELSE parts
    ELSE LET char == expression[i]
         IN  IF char \in Quotes
             THEN split_scan(expression, operator, i + 1, Append(current, char),
                             IF in_quote = char THEN NoQuote
                             ELSE IF in_quote = NoQuote THEN char ELSE in_quote,
                             parts)
             ELSE IF in_quote = NoQuote /\ startswith(from(expression, i), operator)
             THEN split_scan(expression, operator, i + Len(operator), <<>>,
                             in_quote, Append(parts, current))
             ELSE split_scan(expression, operator, i + 1, Append(current, char),
                             in_quote, parts)

\* _split_by_operator
split_by_operator(expression, operator) ==
    split_scan(expression, operator, 1, <<>>, NoQuote, <<>>)

\* the comparison operators in the order _evaluate_comparison tries them
operators == << <<"=", "=">>, <<"!", "=">>, <<"<", "=">>, <<">", "=">>, <<"<">>, <<">">> >>

\* the values float() accepts among the words
Numbers == ("0" :> 0) @@ ("1" :> 1) @@ ("2" :> 2) @@ ("5" :> 5)

\* float(value), surrounding blanks ignored: <<>> for a ValueError
float(value) ==
    LET v == strip(value)
    IN  IF Len(v) = 1 /\ v[1] \in DOMAIN Numbers THEN <<Numbers[v[1]]>> ELSE <<>>

\* the order of the characters and of the first characters of the words
ord(c) ==
    CASE c = " " -> 32 [] c = "!" -> 33 [] c = "\"" -> 34 [] c = "$" -> 36
      [] c = "&" -> 38 [] c = "'" -> 39 [] c = "(" -> 40 [] c = ")" -> 41
      [] c = "0" -> 48 [] c = "1" -> 49 [] c = "2" -> 50 [] c = "5" -> 53
      [] c = "<" -> 60 [] c = "=" -> 61 [] c = ">" -> 62
      [] c = "{" -> 123 [] c = "|" -> 124 [] c = "}" -> 125
      [] c \in {"True", "False"} -> 70
      [] c = "a" -> 97 [] c = "b" -> 98
      [] OTHER -> 100

RECURSIVE less(_, _)
\* left < right for str
less(left, right) ==
    IF right = <<>> THEN FALSE
    ELSE IF left = <<>> THEN TRUE
    ELSE IF Head(left) = Head(right) THEN less(Tail(left), Tail(right))
    ELSE ord(Head(left)) < ord(Head(right))

\* _compare
compare(left, op, right) ==
    IF op = <<"=", "=">> THEN left = right
    ELSE IF op = <<"!", "=">> THEN left # right
    ELSE LET l == float(left)
             r == float(right)
         IN  IF l # <<>> /\ r # <<>>
             THEN CASE op = <<"<">> -> l[1] < r[1]
                    [] op = <<">">> -> l[1] > r[1]
                    [] op = <<"<", "=">> -> l[1] <= r[1]
                    [] op = <<">", "=">> -> l[1] >= r[1]
             ELSE CASE op = <<"<">> -> less(left, right)
                    [] op = <<">">> -> less(right, left)
                    [] op = <<"<", "=">> -> ~less(right, left)
                    [] op = <<">", "=">> -> ~less(left, right)

\* _resolve_value: a quoted literal without its quotes, else the resolved
\* variable, else the text itself
resolve_value(value, ctx) ==
    LET v == strip(value)
        resolved == resolve(ctx, v)
    IN  IF \E q \in Quotes : startswith(v, <<q>>) /\ endswith(v, <<q>>)
        THEN SubSeq(v, 2, Len(v) - 1)
        ELSE IF resolved # <<>> THEN resolved[1]
        ELSE v

\* success() that takes a skipped job as a failure
success_completed_only(ctx) ==
    \A n \in DOMAIN ctx.job_statuses : ctx.job_statuses[n] = "completed"

\* the builtin functions of _evaluate_primary
success(ctx) ==
    \A n \in DOMAIN ctx.job_statuses : ctx.job_statuses[n] \in {"completed", "skipped"}

failure(ctx) == \E n \in DOMAIN ctx.job_statuses : ctx.job_statuses[n] = "failed"

cancelled(ctx) == \E n \in DOMAIN ctx.job_statuses : ctx.job_statuses[n] = "cancelled"

RECURSIVE evaluate_logical_or(_, _)
RECURSIVE evaluate_logical_and(_, _)
RECURSIVE evaluate_comparison(_, _)
RECURSIVE evaluate_primary(_, _)

\* _evaluate_primary
evaluate_primary(expression, ctx) ==
    LET expr == strip(expression)
        value == resolve(ctx, expr)
    IN  IF startswith(expr, <<"(">>) /\ endswith(expr, <<")">>)
        THEN evaluate_logical_or(SubSeq(expr, 2, Len(expr) - 1), ctx)
        ELSE IF Len(expr) = 1 /\ lower(expr[1]) = "true" THEN TRUE
        ELSE IF Len(expr) = 1 /\ lower(expr[1]) = "false" THEN FALSE
        ELSE IF expr = <<"success", "(", ")">> THEN success(ctx)
        ELSE IF expr = <<"failure", "(", ")">> THEN failure(ctx)
        ELSE IF expr = <<"always", "(", ")">> THEN TRUE
        ELSE IF expr = <<"cancelled", "(", ")">> THEN cancelled(ctx)
        ELSE IF value # <<>> THEN is_truthy_text(value[1])
        ELSE FALSE

\* _evaluate_comparison: the first operator of the list that occurs anywhere
\* in the text splits it at its first occurrence
evaluate_comparison(expression, ctx) ==
    LET found == {k \in DOMAIN operators : find(expression, operators[k]) # 0}
    IN  IF found # {}
        THEN LET op == operators[CHOOSE k \in found : \A m \in found : k <= m]
                 idx == find(expression, op)
                 left == strip(SubSeq(expression, 1, idx - 1))
                 right == strip(from(expression, idx + Len(op)))
             IN  compare(resolve_value(left, ctx), op, resolve_value(right, ctx))
        ELSE IF startswith(expression, <<"!">>)
        THEN ~evaluate_primary(strip(Tail(expression)), ctx)
        ELSE evaluate_primary(expression, ctx)

\* _evaluate_logical_and
evaluate_logical_and(expression, ctx) ==
    LET parts == split_by_operator(expression, <<"&", "&">>)
    IN  IF Len(parts) > 1
        THEN \A i \in DOMAIN parts : evaluate_comparison(strip(parts[i]), ctx)
        ELSE evaluate_comparison(expression, ctx)

\* _evaluate_logical_or
evaluate_logical_or(expression, ctx) ==
    LET parts == split_by_operator(expression, <<"|", "|">>)
    IN  IF Len(parts) > 1
        THEN \E i \in DOMAIN parts : evaluate_logical_and(strip(parts[i]), ctx)
        ELSE evaluate_logical_and(expression, ctx)

\* _extract_expression: the text without blanks and without its ${{ }} wrapper
extract_expression(expression) ==
    LET expr == strip(expression)
    IN  IF startswith(expr, <<"$", "{", "{">>) /\ endswith(expr, <<"}", "}">>)
        THEN strip(SubSeq(expr, 4, Len(expr) - 2))
        ELSE expr

\* ExpressionEvaluator.evaluate
ExpressionEvaluator_evaluate(expression, ctx) ==
    LET expr == extract_expression(expression)
    IN  IF expr = <<>> THEN TRUE ELSE evaluate_logical_or(expr, ctx)

\* an evaluation to a string that never returns the raw value
evaluate_to_string_boolean(expression, ctx) ==
    LET expr == extract_expression(expression)
    IN  IF expr = <<>> THEN <<>>
        ELSE IF evaluate_logical_or(expr, ctx) THEN <<"true">> ELSE <<"false">>

\* ExpressionEvaluator.evaluate_to_string
evaluate_to_string(expression, ctx) ==
    LET expr == extract_expression(expression)
        value == resolve(ctx, expr)
    IN  IF expr = <<>> THEN <<>>
        ELSE IF value # <<>> THEN value[1]
        ELSE IF evaluate_logical_or(expr, ctx) THEN <<"true">> ELSE <<"false">>

\* the end of the match of \$\{\{\s*([^}]+)\s*\}\} that starts at position
\* i, 0 when there is none: after "${{" the first "}" must come after at
\* least one character and be followed by another "}"
match_end(text, i) ==
    IF ~startswith(from(text, i), <<"$", "{", "{">>) THEN 0
    ELSE LET close == find(from(text, i + 3), <<"}">>)
         IN  IF close > 1 /\ startswith(from(text, i + 3 + close - 1), <<"}", "}">>)
             THEN i + 3 + close
             ELSE 0

RECURSIVE sub(_, _, _)
\* re.sub from position i: leftmost matches, not overlapping, replaced by
\* evaluate_to_string of group 1 stripped
sub(text, i, ctx) ==
    IF i > Len(text) THEN <<>>
    ELSE LET end == match_end(text, i)
         IN  IF end = 0 THEN <<text[i]>> \o sub(text, i + 1, ctx)
             ELSE evaluate_to_string(strip(SubSeq(text, i + 3, end - 2)), ctx)
                  \o sub(text, end + 1, ctx)

\* ExpressionEvaluator.interpolate
interpolate(text, ctx) == sub(text, 1, ctx)

\* ------------------------------------------- expressions: the expressions
\* An expression as the workflow author writes it, by the grammar
\*   Or := And ('||' And)*, And := Cmp ('&&' Cmp)*, Cmp := Unary (op Unary)?,
\*   Unary := '!' Primary | Primary, Primary := '(' Or ')' | word | call
\* with quoted literals as comparison operands.
Node(kind, op, text, kids) == [kind |-> kind, op |-> op, text |-> text, kids |-> kids]

Word(w) == Node("word", <<>>, <<w>>, <<>>)

Quoted(q, content) == Node("quoted", <<q>>, content, <<>>)

Call(name) == Node("call", <<>>, <<name, "(", ")">>, <<>>)

Not(e) == Node("not", <<"!">>, <<>>, <<e>>)

Paren(e) == Node("paren", <<>>, <<>>, <<e>>)

Cmp(op, l, r) == Node("cmp", op, <<>>, <<l, r>>)

And(kids) == Node("and", <<"&", "&">>, <<>>, kids)

Or(kids) == Node("or", <<"|", "|">>, <<>>, kids)

RECURSIVE render(_, _)
RECURSIVE render_each(_, _, _)
\* the operands of an operator written with sp around the operator
render_each(kids, op, sp) ==
    IF Len(kids) = 1 THEN render(kids[1], sp)
    ELSE render(kids[1], sp) \o sp \o op \o sp \o render_each(Tail(kids), op, sp)

\* the text of an expression
render(e, sp) ==
    CASE e.kind \in {"word", "call"} -> e.text
      [] e.kind = "quoted" -> e.op \o e.text \o e.op
      [] e.kind = "not" -> e.op \o render(e.kids[1], sp)
      [] e.kind = "paren" -> <<"(">> \o render(e.kids[1], sp) \o <<")">>
      [] OTHER -> render_each(e.kids, e.op, sp)

Booleans == {Word("true"), Word("false")}

\* the contents of the quoted literals: plain, and with the text of each
\* kind of operator inside
Contents ==
    { <<"a">>, <<"a", " ", "&", "&", " ", "b">>, <<"a", " ", "|", "|", " ", "b">>,
      <<"a", "=", "=", "b">>, <<"a", "!", "=", "b">>, <<"a", "<", "b">> }

QuotedLiterals == {Quoted(q, c) : q \in Quotes, c \in Contents}

Operands == {Quoted("'", <<"a">>), Quoted("'", <<"b">>), Word("1"), Word("2")}

ComparisonOperators == {operators[k] : k \in DOMAIN operators}

PathWords == {Word(p) : p \in DOMAIN Paths}

\* what a path is compared with
PathOperands ==
    {Quoted("'", <<>>), Quoted("'", <<"5">>), Quoted("'", <<"jobs.1.result">>),
     Quoted("'", <<"completed">>)}

\* expressions of literals only: logical operators with and without
\* parentheses, negation, comparisons
LiteralExpressions ==
    {And(<<Paren(Or(<<a, b>>)), c>>) : a \in Booleans, b \in Booleans, c \in Booleans}
    \cup {And(<<c, Paren(Or(<<a, b>>))>>) : a \in Booleans, b \in Booleans, c \in Booleans}
    \cup {Or(<<a, And(<<b, c>>)>>) : a \in Booleans, b \in Booleans, c \in Booleans}
    \cup {Or(<<And(<<a, b>>), c>>) : a \in Booleans, b \in Booleans, c \in Booleans}
    \cup {Not(Paren(Cmp(op, x, y))) :
            op \in {<<"=", "=">>, <<"!", "=">>}, x \in Operands, y \in Operands}
    \cup {Not(a) : a \in Booleans} \cup {Paren(a) : a \in Booleans}
    \cup {Not(Paren(a)) : a \in Booleans}
    \cup {Paren(Or(<<a, b>>)) : a \in Booleans, b \in Booleans}
    \cup Booleans
    \cup {Cmp(op, x, y) : op \in ComparisonOperators, x \in Operands, y \in Operands}
    \cup {And(<<Cmp(<<"=", "=">>, x, x), Cmp(<<"<">>, y, Word("5"))>>) :
            x \in Operands, y \in {Word("1"), Word("2")}}

\* comparisons of quoted literals
QuotedExpressions ==
    {Cmp(op, x, y) : op \in ComparisonOperators, x \in QuotedLiterals, y \in QuotedLiterals}

\* the builtin calls, alone and negated
BuiltinExpressions ==
    LET calls == {Call(name) : name \in {"success", "failure", "always", "cancelled"}}
    IN  calls \cup {Not(c) : c \in calls}

\* variable paths: alone, negated, compared
PathExpressions ==
    PathWords \cup {Not(p) : p \in PathWords}
    \cup {Cmp(op, p, r) : op \in ComparisonOperators, p \in PathWords, r \in PathOperands}

\* the contexts of a run: any recorded statuses; outputs of the first job
StatusContexts ==
    {[job_outputs |-> <<>>, job_statuses |-> s] :
        s \in UNION {[S -> Terminal] : S \in SUBSET Jobs}}

OutputContexts ==
    {[job_outputs |-> o, job_statuses |-> s] :
        o \in {<<>>} \cup {(1 :> {<<"x", v>>}) : v \in {"5", "", "false"}},
        s \in {<<>>} \cup {(1 :> v) : v \in {"completed", "failed"}}}

\* an expression to evaluate: its form, and the blanks written around its
\* binary operators
Written(forms) == [form : forms, sp : {<<>>, <<" ">>}]

\* a job's guard or a prompt is about to be evaluated; no run exists
InitExpr ==
    /\ \/ authored \in Written(LiteralExpressions \cup QuotedExpressions)
          /\ context = ExpressionContext
       \/ authored \in Written(BuiltinExpressions) /\ context \in StatusContexts
       \/ authored \in Written(PathExpressions) /\ context \in OutputContexts
    /\ evaluation = NotEvaluated
    /\ answered = NoResponse
    /\ extraction = NotExtracted
    /\ current_job = NoCurrentJob
    /\ resolutions = NothingResolved
    /\ workflow_jobs = NoJobs
    /\ provider = NoProvider
    /\ candidate = NoCandidate
    /\ validation = Valid
    /\ topological_order = NotSorted
    /\ needs = [n \in Jobs |-> {}]
    /\ max_concurrent_jobs = 1
    /\ dry_run = FALSE
    /\ single_job = None
    /\ pc = "init"
    /\ run = [status |-> "none", job_results |-> <<>>, error_message |-> NoRunError]
    /\ pending = {}
    /\ running_tasks = {}
    /\ semaphore = max_concurrent_jobs
    /\ tasks = [n \in Jobs |-> NoTask]
    /\ executor_calls = [n \in Jobs |-> 0]
    /\ shell_calls = FALSE
    /\ session_ids = <<>>
    /\ executor_errors = [n \in Jobs |-> NoFailure]
    /\ callbacks = [n \in Jobs |-> <<>>]
    /\ store = WorkflowStore

\* what an evaluation leaves alone
expr_frame == <<needs, max_concurrent_jobs, dry_run, single_job, pc, run, pending,
                running_tasks, semaphore, tasks, context, executor_calls,
                shell_calls, session_ids, executor_errors, callbacks, store,
                candidate, validation, topological_order, authored,
                answered, extraction, current_job, resolutions,
            workflow_jobs, provider>>

\* the wrappers a guard can be written in
Wrappers == {<< <<>>, <<>> >>, << <<"$", "{", "{", " ">>, <<" ", "}", "}">> >>}

\* evaluator.evaluate(job.if_condition, context)
Evaluate ==
    /\ evaluation = NotEvaluated
    /\ \E w \in Wrappers :
         LET text == w[1] \o render(authored.form, authored.sp) \o w[2]
         IN  evaluation' = [kind |-> "evaluate", text |-> text, segments |-> <<>>,
                            value |-> <<ExpressionEvaluator_evaluate(text, context)>>]
    /\ UNCHANGED expr_frame

\* a piece of a prompt: plain text, or a ${{ }} span around inner
Segment_text(text) == [span |-> FALSE, text |-> text]

Segment_span(inner) == [span |-> TRUE, text |-> inner]

RECURSIVE written(_)
\* the prompt text of a list of pieces
written(segments) ==
    IF segments = <<>> THEN <<>>
    ELSE (IF Head(segments).span
          THEN <<"$", "{", "{">> \o Head(segments).text \o <<"}", "}">>
          ELSE Head(segments).text) \o written(Tail(segments))

\* the plain pieces of a prompt, with characters of the span syntax that
\* form no span
PlainTexts == {<<"value", "=">>, <<" ", "a">>, <<"$", "{", "a", "}">>, <<"{", "{", "}", "}">>}

\* the prompts built around an expression: no span, one span, and two
Prompts(inner) ==
    {<<Segment_text(t)>> : t \in PlainTexts}
    \cup {<<Segment_text(t), Segment_span(pad \o inner \o pad)>> :
            t \in PlainTexts, pad \in {<<>>, <<" ">>}}
    \cup {<<Segment_span(<<" ">> \o inner), Segment_text(t), Segment_span(inner \o <<" ">>),
            Segment_text(<<" ", "a">>)>> : t \in PlainTexts}

\* evaluator.interpolate(base_prompt, context)
Interpolate ==
    /\ evaluation = NotEvaluated
    /\ \E segments \in Prompts(render(authored.form, authored.sp)) :
         evaluation' = [kind |-> "interpolate", text |-> written(segments),
                        segments |-> segments,
                        value |-> <<interpolate(written(segments), context)>>]
    /\ UNCHANGED expr_frame

NextExpr ==
    \/ Evaluate
    \/ Interpolate

SpecExpr == InitExpr /\ [][NextExpr]_vars

\* ------------------------------------------------ expressions/extractor.py
\* A response is read as the list of the places where it mentions an output,
\* each in the style one pattern of the extractor matches: style, the name
\* mentioned and the text the pattern captures.
Styles ==
    {"structured", "tagged", "bold_key", "line_key", "bullet_key",
     "the_is", "equals", "backtick"}

\* the texts a pattern can capture: a value, a blank, a value of 500 characters
Captures == {<<"1">>, <<"2">>, <<" ">>, <<"long">>}

Mentions == [style : Styles, name : {"x", "y"}, value : Captures]

\* len() of a captured text
len(value) == IF value = <<"long">> THEN 500 ELSE Len(value)

\* re.search(pattern, response).group(1): <<>> when the pattern of that
\* style does not match the name anywhere
search(style, name, response) ==
    LET at == {i \in DOMAIN response : response[i].style = style /\ response[i].name = name}
    IN  IF at = {} THEN <<>>
        ELSE <<response[CHOOSE i \in at : \A k \in at : i <= k].value>>

\* a value that is neither None nor ""
truthy(value) == value # <<>> /\ value[1] # <<>>

\* _extract_structured_output: <output name="key">value</output>
extract_structured_output(name, response) ==
    LET match == search("structured", name, response)
    IN  IF match # <<>> THEN <<strip(match[1])>> ELSE <<>>

\* _extract_tagged_output: <key>value</key>
extract_tagged_output(name, response) ==
    LET match == search("tagged", name, response)
    IN  IF match # <<>> THEN <<strip(match[1])>> ELSE <<>>

RECURSIVE first_pattern(_, _, _, _)
\* the loop over the patterns of a strategy: the first pattern whose
\* stripped capture is not empty and shorter than the limit, if there is one
first_pattern(patterns, name, response, limit) ==
    IF patterns = <<>> THEN <<>>
    ELSE LET match == search(Head(patterns), name, response)
         IN  IF /\ match # <<>>
                /\ strip(match[1]) # <<>>
                /\ limit = <<>> \/ len(strip(match[1])) < limit[1]
             THEN <<strip(match[1])>>
             ELSE first_pattern(Tail(patterns), name, response, limit)

\* _extract_key_value_output: **key**: value, key: value, - key: value
extract_key_value_output(name, response) ==
    first_pattern(<<"bold_key", "line_key", "bullet_key">>, name, response, <<>>)

\* _extract_inline_output: the key is value, key = value, key: `value`
extract_inline_output(name, response) ==
    first_pattern(<<"the_is", "equals", "backtick">>, name, response, <<500>>)

\* Python's `a or b`
or(a, b) == IF truthy(a) THEN a ELSE b

\* the strategies tried from the last to the first
strategies_reversed(name, response) ==
    or(or(or(extract_inline_output(name, response),
             extract_key_value_output(name, response)),
          extract_tagged_output(name, response)),
       extract_structured_output(name, response))

\* the value of one declared output: the strategies in their order
strategies(name, response) ==
    or(or(or(extract_structured_output(name, response),
             extract_tagged_output(name, response)),
          extract_key_value_output(name, response)),
       extract_inline_output(name, response))

\* the names of a list
names_of(list) == {list[i] : i \in DOMAIN list}

\* OutputExtractor.extract: a dict as the function from its keys
extract(response, declared_outputs) ==
    IF declared_outputs = <<>> THEN <<>>
    ELSE [name \in {n \in names_of(declared_outputs) : truthy(strategies(n, response))}
            |-> strategies(name, response)[1]]

\* ------------------------------------ job_runner.py: _extract_outputs
\* the values a JSON file can give a key, and str() of each
JsonValues == {[type |-> "string", text |-> <<"1">>], [type |-> "number", text |-> <<"2">>],
               [type |-> "null", text |-> <<>>]}

str(v) == IF v.type = "null" THEN <<"None">> ELSE v.text

\* the sidecar file outputs.json of the job: no scratch directory, no file,
\* a file that cannot be opened or parsed, a file holding a JSON object, a
\* file holding a JSON array
Sidecars ==
    [state : {"no directory", "no file", "unreadable", "malformed", "array"},
     data : {<<>>}]
    \cup [state : {"object"}, data : UNION {[S -> JsonValues] : S \in SUBSET {"x", "z"}}]

\* _extract_outputs: the file when it holds a JSON object; data.items() of
\* an array raises AttributeError, which is not caught; JSONDecodeError and
\* OSError are caught and the response is read
extract_outputs(response, output_keys, sidecar) ==
    IF sidecar.state = "object"
    THEN [raised |-> FALSE,
          outputs |-> [k \in DOMAIN sidecar.data \cap names_of(output_keys)
                          |-> str(sidecar.data[k])]]
    ELSE IF sidecar.state = "array"
    THEN [raised |-> TRUE, outputs |-> <<>>]
    ELSE [raised |-> FALSE, outputs |-> extract(response, output_keys)]

MaxMentions == 2

Responses == UNION {[1..n -> Mentions] : n \in 0..MaxMentions}

DeclaredOutputs == {<<>>, <<"x">>, <<"x", "y">>}

\* no file read
NoSidecar == [state |-> "no directory", data |-> <<>>]

\* the executor has answered a job that declares outputs; no run exists
InitExtract ==
    /\ answered \in [text : Responses, declared : DeclaredOutputs]
    /\ extraction = NotExtracted
    /\ current_job = NoCurrentJob
    /\ resolutions = NothingResolved
    /\ workflow_jobs = NoJobs
    /\ provider = NoProvider
    /\ authored = NoExpression
    /\ evaluation = NotEvaluated
    /\ context = ExpressionContext
    /\ candidate = NoCandidate
    /\ validation = Valid
    /\ topological_order = NotSorted
    /\ needs = [n \in Jobs |-> {}]
    /\ max_concurrent_jobs = 1
    /\ dry_run = FALSE
    /\ single_job = None
    /\ pc = "init"
    /\ run = [status |-> "none", job_results |-> <<>>, error_message |-> NoRunError]
    /\ pending = {}
    /\ running_tasks = {}
    /\ semaphore = max_concurrent_jobs
    /\ tasks = [n \in Jobs |-> NoTask]
    /\ executor_calls = [n \in Jobs |-> 0]
    /\ shell_calls = FALSE
    /\ session_ids = <<>>
    /\ executor_errors = [n \in Jobs |-> NoFailure]
    /\ callbacks = [n \in Jobs |-> <<>>]
    /\ store = WorkflowStore

\* what an extraction leaves alone
extract_frame == <<needs, max_concurrent_jobs, dry_run, single_job, pc, run, pending,
                   running_tasks, semaphore, tasks, context, executor_calls,
                   shell_calls, session_ids, executor_errors, callbacks, store,
                   candidate, validation, topological_order, authored, evaluation,
                   answered, current_job, resolutions,
            workflow_jobs, provider>>

\* output_extractor.extract(response, declared_outputs)
Extract ==
    /\ extraction = NotExtracted
    /\ extraction' = [kind |-> "extract", sidecar |-> NoSidecar, raised |-> FALSE,
                      outputs |-> extract(answered.text, answered.declared)]
    /\ UNCHANGED extract_frame

\* self._extract_outputs(response.result, outputs, result.output_dir), called
\* for a job that declares outputs
ExtractOutputs ==
    /\ extraction = NotExtracted
    /\ answered.declared # <<>>
    /\ \E sidecar \in Sidecars :
         LET r == extract_outputs(answered.text, answered.declared, sidecar)
         IN  extraction' = [kind |-> "extract_outputs", sidecar |-> sidecar,
                            raised |-> r.raised, outputs |-> r.outputs]
    /\ UNCHANGED extract_frame

NextExtract ==
    \/ Extract
    \/ ExtractOutputs

SpecExtract == InitExtract /\ [][NextExtract]_vars

\* ----------------------------------------------------------------- claims
\* the status the run records for a job ("absent" for a job not in the run)
status(n) ==
    IF n \in DOMAIN run.job_results THEN run.job_results[n].status ELSE "absent"

\* the result the run records for a job
result_of(n) ==
    IF n \in DOMAIN run.job_results THEN run.job_results[n] ELSE JobResult

RunAll == single_job = None /\ pc # "init"

\* the jobs inside `async with semaphore`, suspended in JobRunner.run
Running == {n \in Jobs : tasks[n].state \in {"gather", "dispatch"}}

\* C1: in run-all the number of jobs that have entered the job executor and
\* have not reached a terminal status never exceeds max_concurrent_jobs.
C1_ConcurrencyLimit ==
    single_job = None => Cardinality(Running) <= max_concurrent_jobs

\* the limiter is full and a started task waits for it
C1_Witness ==
    /\ single_job = None
    /\ Cardinality(Running) = max_concurrent_jobs
    /\ \E n \in Jobs : tasks[n].state = "created"

\* C2: in run-all a loop pass creates the task of a job iff the job is pending
\* and every one of its needs has status completed or skipped; so no job is
\* started while a need of it is pending, running, failed or cancelled.
C2_ReadyIffNeedsSatisfied ==
    [][single_job = None =>
         \A n \in Jobs :
            (tasks[n].state = "none" /\ tasks'[n].state # "none")
            <=> (/\ pc = "dag"
                 /\ n \in pending
                 /\ \A d \in needs[n] : status(d) \in {"completed", "skipped"})]_vars

\* a job was started whose need ended skipped
C2_Witness ==
    /\ RunAll
    /\ \E n \in Jobs : /\ tasks[n].state # "none"
                       /\ \E d \in needs[n] : status(d) = "skipped"
                       /\ \E d \in needs[n] : status(d) = "completed"

C5_RunStatus ==
    pc = "returned" =>
        run.status = IF \E n \in DOMAIN run.job_results : status(n) = "failed"
                     THEN "failed" ELSE "completed"

\* the run returned completed although a job was skipped
C5_Witness ==
    /\ pc = "returned"
    /\ run.status = "completed"
    /\ \E n \in DOMAIN run.job_results : status(n) = "skipped"

C7_TerminalAbsorbing ==
    [][\A n \in DOMAIN run.job_results :
          status(n) \in Terminal => run'.job_results[n] = run.job_results[n]]_vars

\* a job skipped by the cascade of one failed need has a second failed need
C7_Witness ==
    /\ RunAll /\ pc = "returned"
    /\ \E n, x, y \in Jobs :
          /\ x # y /\ {x, y} \subseteq needs[n]
          /\ status(x) = "failed" /\ status(y) = "failed"
          /\ status(n) = "skipped"

\* C8: in run-all, when a job's task exists (so before its guard is evaluated
\* and its prompt interpolated) the context holds the terminal status and the
\* outputs of every job in its needs; and every finished task's status and
\* outputs are in the context.
C8_ContextBeforeReadiness ==
    RunAll =>
      /\ \A n \in Jobs : tasks[n].state # "none" =>
            \A d \in needs[n] :
               /\ d \in DOMAIN context.job_statuses
               /\ d \in DOMAIN context.job_outputs
               /\ context.job_statuses[d] = status(d)
               /\ status(d) \in Terminal
               /\ context.job_outputs[d] = result_of(d).outputs
      /\ \A n \in Jobs : tasks[n].state = "done" =>
            /\ n \in DOMAIN context.job_statuses
            /\ context.job_statuses[n] = status(n)

\* a task not yet started whose needs ended skipped and completed with outputs
C8_Witness ==
    /\ RunAll
    /\ \E n \in Jobs :
          /\ tasks[n].state = "created"
          /\ \E d \in needs[n] : status(d) = "skipped"
          /\ \E d \in needs[n] : result_of(d).outputs # {}

\* C9: in a dry run the executor is never called and no side-channel command
\* is run, in run-all and in single-job mode.
C9_DryRunNoDispatch ==
    dry_run => (\A n \in Jobs : executor_calls[n] = 0) /\ ~shell_calls

\* a dry run-all finished with a goals job and a single-prompt job previewed
C9_Witness ==
    /\ dry_run /\ RunAll /\ pc = "returned"
    /\ \E n \in Jobs :
          result_of(n).claude_output = "[DRY RUN] Would execute with context"
    /\ \E n \in Jobs : result_of(n).claude_output = "[DRY RUN] Would execute"

DryPreviews == {"[DRY RUN] Would execute", "[DRY RUN] Would execute with context"}

\* C10 as stated: in a dry run every job the executor was run on is completed
\* with a preview.
C10_Original ==
    dry_run =>
       \A n \in Jobs : tasks[n].state = "done" =>
          /\ status(n) = "completed"
          /\ result_of(n).claude_output \in DryPreviews

\* C10 amended: in a dry run JobRunner.run returns at once, without dispatch;
\* the result is completed with a preview when the guard is absent or true and
\* the prompt is built, skipped without preview when the guard is false, and
\* failed without preview when the guard or the prompt building raises.
C10_DryRunResults ==
    dry_run =>
      /\ \A job \in JobDefs : \A built \in BuildOutcomes(job) :
            LET seg == JobRunner_run(job, context, TRUE, built)
                guard == job.if_condition
                r == seg.result
            IN  /\ seg.state = "done" /\ ~seg.executes /\ ~seg.shell
                /\ CASE guard.kind = "raises" ->
                          r.status = "failed" /\ r.claude_output = "none"
                     [] guard.kind # "none" /\ ~evaluate(guard, context) ->
                          r.status = "skipped" /\ r.claude_output = "none"
                     [] ~built ->
                          r.status = "failed" /\ r.claude_output = "none"
                     [] OTHER ->
                          r.status = "completed" /\ r.claude_output \in DryPreviews
      /\ \A n \in Jobs : tasks[n].state = "done" =>
            LET r == result_of(n)
            IN  \/ r.status = "completed" /\ r.claude_output \in DryPreviews
                \/ /\ r.status = "skipped" /\ r.claude_output = "none"
                   /\ r.error_message.kind = "condition false"
                \/ /\ r.status = "failed" /\ r.claude_output = "none"
                   /\ r.error_message.kind \in {"condition error", "build"}

\* a dry run in which one job was previewed, one skipped by its guard and one
\* failed while its prompt was built
C10_Witness ==
    /\ dry_run /\ pc = "returned"
    /\ \E n, m, k \in Jobs :
          /\ status(n) = "completed" /\ result_of(n).claude_output \in DryPreviews
          /\ status(m) = "skipped"
          /\ result_of(m).error_message.kind = "condition false"
          /\ status(k) = "failed" /\ result_of(k).error_message.kind = "build"

\* whether a job has been handed to the executor: it is suspended in
\* provider.execute, or it ended with the executor's answer
Dispatched(n) ==
    \/ tasks[n].state = "dispatch"
    \/ /\ tasks[n].state = "done"
       /\ \/ status(n) = "completed"
          \/ status(n) = "failed" /\ result_of(n).error_message.kind = "executor"

\* C11: in a run that is not dry each job is dispatched to the executor at
\* most once, and exactly once when it was started, its guard is absent or
\* true and its instruction is assembled; a job that ends skipped (by guard,
\* cascade or fallback) or fails before dispatch is never dispatched.
C11_DispatchOnce ==
    ~dry_run =>
      /\ \A n \in Jobs :
            /\ executor_calls[n] = IF Dispatched(n) THEN 1 ELSE 0
            /\ status(n) = "skipped" => executor_calls[n] = 0
      /\ \A job \in JobDefs : \A built \in BuildOutcomes(job) :
            LET seg == JobRunner_run(job, context, FALSE, built)
                passes == \/ job.if_condition.kind = "none"
                          \/ /\ job.if_condition.kind # "raises"
                             /\ evaluate(job.if_condition, context)
            IN  IF passes /\ built
                THEN /\ seg.state = IF job.context THEN "gather" ELSE "dispatch"
                     /\ seg.executes <=> ~job.context
                ELSE seg.state = "done" /\ ~seg.executes

\* a run in which one job was dispatched after gathering its context, one was
\* skipped by its guard and one by the cascade
C11_Witness ==
    /\ ~dry_run /\ RunAll /\ pc = "returned" /\ shell_calls
    /\ \E n, m, k \in Jobs :
          /\ executor_calls[n] = 1 /\ status(n) = "failed"
          /\ status(m) = "skipped"
          /\ result_of(m).error_message.kind = "condition false"
          /\ status(k) = "skipped"
          /\ result_of(k).error_message.kind = "dependency failed"

\* the job was skipped because its guard evaluated to false
GuardSkipped(n) ==
    status(n) = "skipped" /\ result_of(n).error_message.kind = "condition false"

\* C12: a job whose guard evaluates to false ends skipped with the expression
\* text in its reason, without executor dispatch or side-channel command; the
\* jobs that need it are not skipped by the cascade, and the loop pass that
\* finds all their needs completed or skipped starts them.
C12_GuardFalseSkips ==
    /\ [](\A job \in JobDefs : \A built \in BuildOutcomes(job) :
            LET guard == job.if_condition
                seg == JobRunner_run(job, context, dry_run, built)
            IN  (guard.kind \notin {"none", "raises"} /\ ~evaluate(guard, context)) =>
                    /\ seg.state = "done" /\ ~seg.executes /\ ~seg.shell
                    /\ seg.result.status = "skipped"
                    /\ seg.result.error_message.kind = "condition false"
                    /\ seg.result.error_message.text = expression_text(guard))
    /\ [](\A n \in Jobs : GuardSkipped(n) =>
            /\ executor_calls[n] = 0
            /\ result_of(n).error_message.text
                  \in {expression_text(g) : g \in Guards \ {[kind |-> "none", job |-> None]}}
            /\ \A m \in Jobs :
                  result_of(m).error_message.kind = "dependency failed"
                     => result_of(m).error_message.job # n)
    /\ [][\A m \in Jobs :
            (/\ pc = "dag" /\ m \in pending
             /\ \E n \in needs[m] : GuardSkipped(n)
             /\ \A d \in needs[m] : status(d) \in {"completed", "skipped"})
            => tasks'[m].state = "created"]_vars

\* a job completed whose only need was skipped by its guard
C12_Witness ==
    /\ RunAll /\ ~dry_run /\ pc = "returned"
    /\ \E n, m \in Jobs :
          /\ needs[m] = {n}
          /\ GuardSkipped(n)
          /\ result_of(n).error_message.text = "jobs.<name>.outputs.x"
          /\ status(m) = "completed" /\ executor_calls[m] = 1

\* the job failed because its guard could not be evaluated
GuardFailed(n) ==
    status(n) = "failed" /\ result_of(n).error_message.kind = "condition error"

\* C13: a guard evaluation error fails the owning job with the error text and
\* does not abort the run: the job's transitive dependents are skipped by the
\* cascade as for any failure, every other job still runs, and the run ends
\* failed by the count of failed jobs.
C13_GuardErrorFailsJob ==
    /\ \A job \in JobDefs : \A built \in BuildOutcomes(job) :
          LET seg == JobRunner_run(job, context, dry_run, built)
          IN  job.if_condition.kind = "raises" =>
                 /\ seg.state = "done" /\ ~seg.executes /\ ~seg.shell
                 /\ seg.result.status = "failed"
                 /\ seg.result.error_message.kind = "condition error"
                 /\ seg.result.error_message.text = "maximum recursion depth exceeded"
    /\ \A n \in Jobs : (RunAll /\ GuardFailed(n)) =>
          /\ executor_calls[n] = 0
          /\ \A m \in Jobs : n \in AllNeeds(needs, m) =>
                /\ tasks[m].state = "none"
                /\ pc \in {"dag", "finalize", "returned"} =>
                      /\ status(m) = "skipped"
                      /\ result_of(m).error_message.kind = "dependency failed"
          /\ pc = "returned" =>
                /\ run.status = "failed"
                /\ run.error_message = [count |-> failed_job_count(run),
                                        text |-> "job(s) failed"]
                /\ \A m \in Jobs :
                      (\A d \in AllNeeds(needs, m) : status(d) # "failed")
                         => tasks[m].state = "done"

\* a guard error: the dependent is skipped and a job on another branch completes
C13_Witness ==
    /\ RunAll /\ pc = "returned"
    /\ \E n, m, k \in Jobs :
          /\ GuardFailed(n)
          /\ needs[m] = {n}
          /\ status(m) = "skipped" /\ result_of(m).error_message.job = n
          /\ status(k) = "completed"
          /\ run.error_message.count = 1

\* what a failed dispatch must leave unrecorded: outputs, counters, token
NothingRecorded(n) ==
    /\ result_of(n).outputs = {}
    /\ result_of(n).input_tokens = None
    /\ result_of(n).session_id = None
    /\ result_of(n).claude_output = "none"
    /\ n \notin DOMAIN session_ids

\* C14 as stated: when the executor reports a failure with an error text, the
\* job is failed with exactly that text, and nothing of the dispatch is recorded.
C14_Original ==
    \A n \in Jobs :
       (executor_errors[n].failed /\ executor_errors[n].error # <<>>) =>
          /\ status(n) = "failed"
          /\ result_of(n).error_message.text = executor_errors[n].error[1]
          /\ NothingRecorded(n)

\* C14 amended: when the executor reports a failure the job is failed; its
\* error message is the executor's error text verbatim when that text is not
\* empty, and "Unknown error" when the executor gave no text or an empty one;
\* no outputs, counters or continuation token of the dispatch are recorded.
C14_ExecutorFailure ==
    \A n \in Jobs :
       executor_errors[n].failed =>
          /\ status(n) = "failed"
          /\ result_of(n).error_message.kind = "executor"
          /\ result_of(n).error_message.text =
                IF executor_errors[n].error \in {<<>>, <<"">>}
                THEN "Unknown error"
                ELSE executor_errors[n].error[1]
          /\ NothingRecorded(n)

\* the executor failed twice, once with a text and once with an empty one,
\* while another job completed with a continuation token
C14_Witness ==
    /\ RunAll /\ pc = "returned"
    /\ \E n, m, k \in Jobs :
          /\ executor_errors[n] = [failed |-> TRUE, error |-> <<"exit code 1">>]
          /\ result_of(n).error_message.text = "exit code 1"
          /\ executor_errors[m] = [failed |-> TRUE, error |-> <<"">>]
          /\ result_of(m).error_message.text = "Unknown error"
          /\ k \in DOMAIN session_ids /\ result_of(k).input_tokens # None

\* the positions at which status_callback was called with a terminal status
TerminalCalls(n) == {i \in DOMAIN callbacks[n] : callbacks[n][i] \in Terminal}

\* C15 as stated: for every job with a terminal status (jobs skipped by the
\* cascade or the fallback included) the callback was called exactly once with
\* that status, and not before the job's running notification.
C15_Original ==
    \A n \in Jobs :
       status(n) \in Terminal =>
          /\ Cardinality(TerminalCalls(n)) = 1
          /\ \A i \in TerminalCalls(n) :
                /\ callbacks[n][i] = status(n)
                /\ \A k \in DOMAIN callbacks[n] :
                      callbacks[n][k] = "running" => k < i

\* C16: when an exception escapes the control loop (a job task raised instead
\* of returning a result) run() marks the run failed with the exception text,
\* leaves the job results as they are, persists the run and returns; and no
\* step, the one that meets the exception included, changes the result of a
\* job that had reached a terminal status.
C16_RunLevelException ==
    /\ [][pc = "raised" =>
            /\ pc' = "returned"
            /\ run'.status = "failed"
            /\ run'.error_message.text = ExceptionText
            /\ run'.job_results = run.job_results
            /\ store'.saved = <<run'>>]_vars
    /\ [][\A n \in DOMAIN run.job_results :
            status(n) \in Terminal => run'.job_results[n] = run.job_results[n]]_vars
    /\ []((pc = "returned" /\ \E n \in Jobs : tasks[n].state = "raised") =>
            /\ run.status = "failed"
            /\ run.error_message.text = ExceptionText
            /\ store.saved = <<run>>)

\* run-all returned after a task raised; a job that had completed with
\* outputs before keeps its result, the job that raised is left pending
C16_Witness ==
    /\ RunAll /\ pc = "returned"
    /\ run.error_message.text = ExceptionText
    /\ store.saved = <<run>>
    /\ \E n, m \in Jobs :
          /\ tasks[n].state = "raised" /\ status(n) = "pending"
          /\ status(m) = "completed" /\ result_of(m).outputs # {}

\* C17: in single-job mode the named job is run whatever the statuses of its
\* needs (none of them has a result), no other job of the workflow is started,
\* dispatched or notified, the run holds the result of that job only, and the
\* dispatch of the job gets no continuation token.
C17_SingleJobMode ==
    (single_job \in Jobs /\ pc # "init") =>
       /\ DOMAIN run.job_results = {single_job}
       /\ pc # "single" => tasks[single_job].state # "none"
       /\ tasks[single_job].session_id = None
       /\ session_ids = <<>>
       /\ \A n \in Jobs \ {single_job} :
             /\ tasks[n].state = "none"
             /\ executor_calls[n] = 0
             /\ callbacks[n] = <<>>

\* a single job with two needs was dispatched and completed with a token
C17_Witness ==
    /\ single_job \in Jobs /\ pc = "returned"
    /\ Cardinality(needs[single_job]) = 2
    /\ status(single_job) = "completed"
    /\ result_of(single_job).session_id = single_job
    /\ executor_calls[single_job] = 1

\* C18: for every valid workflow, topological_sort returns every job name
\* exactly once, and no job comes before a job named in its needs.
C18_TopologicalSort ==
    topological_order # NotSorted =>
        LET result == topological_order.result
        IN  /\ validation.ok
            /\ ~topological_order.raised
            /\ Len(result) = NumJobs
            /\ {result[i] : i \in DOMAIN result} = Jobs
            /\ \A i, k \in DOMAIN result :
                 result[k] \in candidate.needs[result[i]] => k < i

\* a valid workflow was sorted in which the first job needs the two others
\* and one of those needs the other, so the order is not the alphabetic one
C18_Witness ==
    /\ topological_order # NotSorted
    /\ candidate.needs[1] = {2, 3}
    /\ candidate.needs[2] = {3}
    /\ topological_order.result = <<3, 2, 1>>

\* some job of the candidate has no mode, a needs entry that is not a job,
\* or is among its own transitive needs
Invalid(c) ==
    \/ \E n \in Jobs : c.modes[n] = {}
    \/ \E n \in Jobs : ~(c.needs[n] \subseteq Jobs)
    \/ \E n \in Jobs : n \in AllNeeds(c.needs, n)

\* C19: validation fails iff some job has no execution mode, some needs
\* entry names a job that does not exist, or the needs graph has a cycle (a
\* self-dependency included); after a failure nothing is sorted and no run
\* exists; a reported cycle path follows needs edges in visit order and
\* ends at the job it revisits; when two jobs need each other and no other
\* job is on a cycle, the path contains both names.
C19_ValidationFails ==
    validation # NotValidated =>
        LET p == validation.path
        IN  /\ ~validation.ok <=> Invalid(candidate)
            /\ ~validation.ok => topological_order = NotSorted /\ run.status = "none"
            /\ validation.kind = "cycle" =>
                 /\ Len(p) >= 2
                 /\ \A i \in 1..(Len(p) - 1) : p[i + 1] \in candidate.needs[p[i]]
                 /\ \A i, k \in 1..(Len(p) - 1) : i # k => p[i] # p[k]
                 /\ \E i \in 1..(Len(p) - 1) : p[i] = p[Len(p)]
            /\ \A a, b \in Jobs :
                 /\ a # b
                 /\ candidate.needs[a] = {b}
                 /\ candidate.needs[b] = {a}
                 /\ \A n \in Jobs : candidate.modes[n] # {}
                 /\ \A n \in Jobs \ {a, b} :
                      candidate.needs[n] \subseteq Jobs /\ n \notin AllNeeds(candidate.needs, n)
                 => /\ validation.kind = "cycle"
                    /\ {a, b} \subseteq {p[i] : i \in DOMAIN p}

\* two jobs need each other and the third job, which needs one of them, was
\* searched first: the reported path starts outside the cycle
C19_Witness ==
    /\ validation.kind = "cycle"
    /\ candidate.needs[1] = {2}
    /\ candidate.needs[2] = {1}
    /\ candidate.needs[3] = {1}
    /\ validation.path = <<3, 1, 2, 1>>

\* C20 as stated: every workflow accepted by validation has each job
\* defining exactly one execution mode.
C20_Original ==
    validation.ok /\ candidate # NoCandidate =>
        \A n \in Jobs : Cardinality(candidate.modes[n]) = 1

\* C20: every workflow accepted by validation has each job defining at
\* least one execution mode; a job that defines more than one is accepted.
C20_AtLeastOneMode ==
    validation # NotValidated /\ candidate # NoCandidate =>
        /\ validation.ok => \A n \in Jobs : Cardinality(candidate.modes[n]) >= 1
        /\ (\A n \in Jobs : candidate.modes[n] # {} /\ candidate.needs[n] = {})
             => validation.ok

\* a workflow was accepted in which a job defines both a prompt and an agent
C20_Witness ==
    /\ validation.ok
    /\ candidate # NoCandidate
    /\ \E n \in Jobs : candidate.modes[n] = {"prompt", "agent"}

\* the expression was evaluated as a guard
Evaluated == evaluation.kind = "evaluate"

\* the statuses the context records
Recorded == {context.job_statuses[n] : n \in DOMAIN context.job_statuses}

\* the value of a comparison operand by the grammar: the content of a quoted
\* literal, the text of a word
OperandValue(e) == e.text

RECURSIVE Meaning(_)
\* the value of an expression of literals by the grammar and its precedence
Meaning(e) ==
    CASE e.kind = "or" -> \E i \in DOMAIN e.kids : Meaning(e.kids[i])
      [] e.kind = "and" -> \A i \in DOMAIN e.kids : Meaning(e.kids[i])
      [] e.kind = "not" -> ~Meaning(e.kids[1])
      [] e.kind = "paren" -> Meaning(e.kids[1])
      [] e.kind = "cmp" ->
            compare(OperandValue(e.kids[1]), e.op, OperandValue(e.kids[2]))
      [] OTHER -> e.text = <<"true">>

\* C21 as stated: operator text inside a quoted literal never splits the
\* expression, so a comparison of two quoted literals compares their
\* contents, and q == q is true for every quoted literal q.
C21_Original ==
    Evaluated /\ authored.form \in QuotedExpressions =>
        LET e == authored.form
        IN  /\ evaluation.value = <<compare(e.kids[1].text, e.op, e.kids[2].text)>>
            /\ e.op = <<"=", "=">> /\ e.kids[1] = e.kids[2] => evaluation.value = <<TRUE>>

\* C22 as stated: evaluate follows the grammar and its precedence, with a
\* parenthesised sub-expression evaluated as a unit; (A || B) && C is
\* (A or B) and C, and !(X == Y) is the negation of X == Y.
C22_Original ==
    Evaluated /\ authored.form \in LiteralExpressions =>
        evaluation.value = <<Meaning(authored.form)>>

\* C23: for every map of recorded statuses, success() is true iff every
\* recorded status is completed or skipped, failure() iff some status is
\* failed, cancelled() iff some status is cancelled, always() is true; a
\* negated call gives the opposite.
C23_Builtins ==
    Evaluated /\ authored.form \in BuiltinExpressions =>
        LET e == authored.form
            call == IF e.kind = "not" THEN e.kids[1] ELSE e
            expected ==
                CASE call.text[1] = "success" -> Recorded \subseteq {"completed", "skipped"}
                  [] call.text[1] = "failure" -> "failed" \in Recorded
                  [] call.text[1] = "cancelled" -> "cancelled" \in Recorded
                  [] call.text[1] = "always" -> TRUE
        IN  evaluation.value = <<IF e.kind = "not" THEN ~expected ELSE expected>>

\* success() was evaluated to true with a completed and a skipped job recorded
C23_Witness ==
    /\ Evaluated
    /\ authored.form = Call("success")
    /\ Recorded = {"completed", "skipped"}
    /\ evaluation.value = <<TRUE>>

\* the paths that have no value in the context
Unresolved == {p \in DOMAIN Paths : resolve(context, <<p>>) = <<>>}

\* C24 as stated: a path without a value is an absent value and never
\* raises: alone it evaluates to false, and in a comparison the result does
\* not depend on the spelling of the path.
C24_Original ==
    Evaluated /\ authored.form \in PathExpressions =>
        LET e == authored.form
        IN  /\ evaluation.value \in {<<TRUE>>, <<FALSE>>}
            /\ e.kind = "word" /\ e.text[1] \in Unresolved => evaluation.value = <<FALSE>>
            /\ e.kind = "cmp" /\ e.kids[1].text[1] \in Unresolved =>
                 \A p \in Unresolved :
                    evaluation.value =
                        <<ExpressionEvaluator_evaluate(
                            render(Cmp(e.op, Word(p), e.kids[2]), authored.sp), context)>>

RECURSIVE Replaced(_)
\* a prompt with every span replaced by evaluate_to_string of its trimmed
\* inner expression and every other piece kept
Replaced(segments) ==
    IF segments = <<>> THEN <<>>
    ELSE (IF Head(segments).span
          THEN evaluate_to_string(strip(Head(segments).text), context)
          ELSE Head(segments).text) \o Replaced(Tail(segments))

Yields(name) ==
    <<extract_structured_output(name, answered.text),
      extract_tagged_output(name, answered.text),
      extract_key_value_output(name, answered.text),
      extract_inline_output(name, answered.text)>>

\* C26: extract returns a map whose keys are declared names; for each
\* declared name on its own, the value is what the first strategy with a
\* non-empty value yields, and a name for which no strategy yields a
\* non-empty value is left out.
C26_Extract ==
    extraction.kind = "extract" =>
        /\ ~extraction.raised
        /\ DOMAIN extraction.outputs \subseteq names_of(answered.declared)
        /\ \A name \in names_of(answered.declared) :
             LET yields == Yields(name)
                 hits == {k \in 1..4 : truthy(yields[k])}
             IN  IF hits = {} THEN name \notin DOMAIN extraction.outputs
                 ELSE /\ name \in DOMAIN extraction.outputs
                      /\ extraction.outputs[name] =
                            yields[CHOOSE k \in hits : \A m \in hits : k <= m][1]

\* x was extracted from its structured tag although a bare tag with another
\* value comes first in the response, and y, mentioned only with a blank
\* value, was left out
C26_Witness ==
    /\ extraction.kind = "extract"
    /\ answered.declared = <<"x", "y">>
    /\ answered.text = <<[style |-> "tagged", name |-> "x", value |-> <<"2">>],
                         [style |-> "structured", name |-> "x", value |-> <<"1">>]>>
    /\ DOMAIN extraction.outputs = {"x"}
    /\ extraction.outputs["x"] = <<"1">>

\* C27 as stated: when the sidecar JSON file exists, the outputs are the
\* file's top-level keys that are declared, with values coerced to string,
\* and the response is not consulted; when the file is malformed or
\* unreadable, the outputs are those of the regex strategies; the job does
\* not fail in either case.
C27_Original ==
    extraction.kind = "extract_outputs" =>
        LET sidecar == extraction.sidecar
            keys == IF sidecar.state = "object" THEN DOMAIN sidecar.data ELSE {}
        IN  /\ sidecar.state \in {"object", "array"} =>
                /\ ~extraction.raised
                /\ DOMAIN extraction.outputs = keys \cap names_of(answered.declared)
                /\ \A k \in DOMAIN extraction.outputs :
                     extraction.outputs[k] = str(sidecar.data[k])
            /\ sidecar.state \in {"malformed", "unreadable"} =>
                /\ ~extraction.raised
                /\ extraction.outputs = extract(answered.text, answered.declared)

\* the jobs the run records with a terminal status that never were RUNNING:
\* mark_started, which sets start_time, was not called on their result
NeverRunning ==
    {n \in DOMAIN run.job_results :
        /\ run.job_results[n].status \in Terminal
        /\ run.job_results[n].start_time = <<>>}

\* C28 as stated: every JobResult is PENDING when the run is created, and
\* every job that reaches a terminal status did so from RUNNING.
C28_Original ==
    \A n \in Jobs \cap DOMAIN run.job_results :
        /\ run.job_results[n].status \in {"pending"} \cup Terminal
        /\ run.job_results[n].status = "pending" => run.job_results[n] = JobResult
        /\ n \notin NeverRunning

\* C28: every JobResult is PENDING when the run is created; a job that the
\* job runner ran reaches its terminal status from RUNNING; a job skipped
\* because a dependency failed or its dependencies cannot be satisfied, and
\* a single job that is not in the workflow, go from PENDING to their
\* terminal status without being RUNNING.
C28_StatusEdges ==
    \A n \in DOMAIN run.job_results :
        LET r == run.job_results[n]
        IN  /\ r.status \in {"pending"} \cup Terminal
            /\ r.status = "pending" => r = JobResult
            /\ r.status \in Terminal /\ n \in Jobs =>
                 (r.start_time # <<>> <=> tasks[n].returned = r.status)
            /\ n \in NeverRunning =>
                 \/ /\ r.status = "skipped"
                    /\ r.error_message.kind \in
                          {"dependency failed", "dependencies not satisfied"}
                    /\ tasks[n].state = "none"
                 \/ /\ r.status = "failed"
                    /\ r.error_message.kind = "not found"
                    /\ n \notin Jobs

\* a job failed after it was RUNNING and a dependent of it was skipped
\* without ever being RUNNING
C28_Witness ==
    \E n, m \in Jobs :
        /\ n \in needs[m]
        /\ status(n) = "failed"
        /\ result_of(n).start_time # <<>>
        /\ m \in NeverRunning
        /\ status(m) = "skipped"

\* the tasks that have finished and that the control loop has not processed
Finished == {n \in running_tasks : tasks[n].state = "done"}

\* C29: the control loop waits for at least one running task, not for all:
\* it can go on as soon as one task has finished, whatever the others do;
\* while it is blocked and no finished task is unprocessed, no pending job
\* is ready; when it processes completions, every pending job they made
\* ready is started in the same iteration, and the tasks still running are
\* left as they are.
C29_WaitsForAny ==
    /\ [](pc = "wait" /\ Finished = {} =>
            \A n \in pending : ~job_is_ready(n, needs, run))
    /\ [](pc = "wait" /\ Finished # {} => ENABLED TasksDone)
    /\ [][pc = "dag" /\ pc' = "wait" =>
            /\ \A n \in pending :
                 job_is_ready(n, needs, run) =>
                    n \in running_tasks' /\ tasks'[n].state = "created"
            /\ \A m \in running_tasks : m \in running_tasks' /\ tasks'[m] = tasks[m]]_vars

\* a job was started after the job it needs had completed, while a job
\* started before, which is not among its needs, is still at the executor
C29_Witness ==
    \E n, d, m \in Jobs :
        /\ pc = "wait"
        /\ needs[n] = {d}
        /\ m \notin AllNeeds(needs, n) \cup {n}
        /\ status(d) = "completed"
        /\ d \notin running_tasks
        /\ tasks[n].state = "created"
        /\ tasks[m].state = "dispatch"

\* what the context holds about a job
entry(ctx, n) ==
    [outputs |-> IF n \in DOMAIN ctx.job_outputs THEN <<ctx.job_outputs[n]>> ELSE <<>>,
     status |-> IF n \in DOMAIN ctx.job_statuses THEN <<ctx.job_statuses[n]>> ELSE <<>>]

\* the job's task reaches its end in this step
Ends(n) == tasks[n].state # "done" /\ tasks'[n].state = "done"

\* the step changes what the context or the run holds about the job
Writes(n) ==
    \/ entry(context', n) # entry(context, n)
    \/ /\ n \in DOMAIN run.job_results
       /\ run'.job_results[n] # run.job_results[n]

Unsatisfiable ==
    /\ pc = "dag"
    /\ running_tasks = {}
    /\ pending # {}
    /\ \A n \in pending : ~job_is_ready(n, needs, run)

\* C31: in run-all of a validated workflow the loop is never at its test with
\* no job running, no job ready and jobs pending, and no job is ever skipped
\* with the reason "dependencies not satisfied".
C31_FallbackNeverTaken ==
    single_job = None =>
        /\ ~Unsatisfiable
        /\ \A n \in DOMAIN run.job_results :
              run.job_results[n].error_message.kind # "dependencies not satisfied"

\* the loop is at its test with nothing running and a job pending, after one
\* job failed and another was skipped: the pending job needs the skipped job,
\* and is ready
C31_Witness ==
    \E n \in pending, d \in Jobs, f \in Jobs :
        /\ single_job = None
        /\ pc = "dag"
        /\ running_tasks = {}
        /\ status(f) = "failed"
        /\ d \in needs[n]
        /\ status(d) = "skipped"
        /\ job_is_ready(n, needs, run)

\* a job of the run has been started: its task exists, or JobRunner.run was entered
Started == {n \in Jobs : tasks[n].state # "none"}

\* C32: the run is persisted before any job is started, as a running run with
\* every job pending; run() persists it once more after it has set the final
\* status, on every path (all jobs fine, jobs failed, an exception out of the
\* scheduler); old runs are pruned only after that last save, and the record
\* the store holds when run() returns is the returned run with its final status.
C32_PersistedAtStartAndEnd ==
    /\ [](pc # "init" => store.saves >= 1 /\ store.saved # <<>>)
    /\ [](Started = {} /\ pc \in {"dag", "single"} =>
             /\ store.saves = 1
             /\ store.saved = <<run>>
             /\ run.status = "running"
             /\ \A n \in DOMAIN run.job_results : run.job_results[n] = JobResult)
    /\ [](store.pruned <=> pc = "returned")
    /\ [](pc = "returned" =>
             /\ store.saved = <<run>>
             /\ run.status \in {"completed", "failed"})
    /\ [][pc # "returned" /\ pc' = "returned" =>
             /\ pc \in {"finalize", "raised"}
             /\ store'.saves = store.saves + 1
             /\ run.status = "running"]_vars

\* run() has returned after an exception left the scheduler while another job
\* had already been recorded: the store holds the failed run, saved at the
\* start, after the recorded job and at the end, and has been pruned
C32_Witness ==
    /\ pc = "returned"
    /\ single_job = None
    /\ run.status = "failed"
    /\ run.error_message.text = ExceptionText
    /\ store.saved = <<run>>
    /\ store.saves = 3
    /\ store.pruned
    /\ \E n \in Jobs : tasks[n].state = "raised"

\* the token a dispatch gets when the job names A: the token A completed
\* with, if it has completed with one, and no token otherwise
TokenOf(A) ==
    IF A \in Jobs /\ status(A) = "completed" /\ result_of(A).session_id # None
    THEN result_of(A).session_id
    ELSE None

\* C33: in run-all the continuation-token map holds exactly the tokens of the
\* jobs that completed with one, each returned by the job's own successful
\* dispatch; whatever job a dispatch names, the token it is given is the
\* token that job has completed with so far, or none; and the token a task
\* passes when it enters its dispatch is the one given for a name.
C33_ContinuationToken ==
    /\ [](single_job = None /\ pc # "init" =>
            /\ \A A \in DOMAIN session_ids :
                  /\ status(A) = "completed"
                  /\ executor_calls[A] = 1
                  /\ ~executor_errors[A].failed
                  /\ session_ids[A] = A
            /\ \A A \in ContinueSessions :
                  continuation(A, <<session_ids>>) = TokenOf(A))
    /\ [][single_job = None =>
            \A B \in Jobs :
                (tasks[B].state # "dispatch" /\ tasks'[B].state = "dispatch") =>
                    \E A \in ContinueSessions : tasks'[B].session_id = TokenOf(A)]_vars

\* a job is at the executor with the token of a job it does not need, which
\* completed while the job waited to be dispatched; the job it needs
\* completed without a token
C33_Witness ==
    \E A, B, d \in Jobs :
        /\ single_job = None
        /\ A # B /\ A \notin needs[B]
        /\ needs[B] = {d}
        /\ TokenOf(d) = None
        /\ tasks[B].state = "dispatch"
        /\ tasks[B].session_id = A
        /\ TokenOf(A) = A

\* C34: in every reachable state of a run, ready_jobs returns exactly the
\* jobs with a pending result for which the readiness test of the scheduler
\* is true.
C34_Original ==
    pc # "init" =>
        ready_jobs(run, needs) =
            sorted({n \in Jobs \cap DOMAIN run.job_results :
                      status(n) = "pending" /\ job_is_ready(n, needs, run)})

\* ------------------------- execution/job_runner.py: the current-job scope
\* the scratch directory of a job, <base>/<run_id>/<job_name>, named by the job
output_dir(job_name) == <<job_name>>

\* context.set_current_job(output_dir): the scope holds this directory only
set_current_job(dir) == dir

\* context.resolve("job.output_dir"): what the scope holds, <<>> for None
resolve_job(scope) == scope

\* goals that are interpolated through the shared context
goals_output_dir_from_context(dir, scope) == resolve_job(scope)

\* _build_goals_prompt: "${{ job.output_dir }}" in a goal is replaced by the
\* output_dir of the job's own result, not resolved through the context
goals_output_dir(dir, scope) == dir

\* a resolution of job.output_dir: its value, and the scope of the shared
\* context at that moment
Resolution(value, scope) == [value |-> value, scope |-> scope]

\* the jobs as far as the scope goes: the execution mode, whether side-channel
\* commands are declared, whether the guard and the prompt or goals mention
\* job.output_dir
ScopeJobs ==
    { d \in [mode : {"goals", "prompt"}, context : BOOLEAN, guard_reads : BOOLEAN,
             text_reads : BOOLEAN] :
        d.context => d.mode = "goals" }

\* the tasks of a run-all have been created for jobs that need nothing; no
\* job has started
InitScope ==
    /\ current_job = NoCurrentJob
    /\ resolutions = NothingResolved
    /\ workflow_jobs = NoJobs
    /\ provider = NoProvider
    /\ max_concurrent_jobs \in 1..NumJobs
    /\ semaphore = max_concurrent_jobs
    /\ tasks = [n \in Jobs |-> [NoTask EXCEPT !.state = "created"]]
    /\ running_tasks = Jobs
    /\ pending = {}
    /\ pc = "wait"
    /\ needs = [n \in Jobs |-> {}]
    /\ dry_run = FALSE
    /\ single_job = None
    /\ run = [WorkflowRun_create(Jobs) EXCEPT !.status = "running"]
    /\ answered = NoResponse
    /\ extraction = NotExtracted
    /\ authored = NoExpression
    /\ evaluation = NotEvaluated
    /\ context = ExpressionContext
    /\ candidate = NoCandidate
    /\ validation = Valid
    /\ topological_order = NotSorted
    /\ executor_calls = [n \in Jobs |-> 0]
    /\ shell_calls = FALSE
    /\ session_ids = <<>>
    /\ executor_errors = [n \in Jobs |-> NoFailure]
    /\ callbacks = [n \in Jobs |-> <<>>]
    /\ store = WorkflowStore

\* what the steps of a job leave alone as far as the scope goes
scope_frame == <<needs, max_concurrent_jobs, dry_run, single_job, pc, run, pending,
                 running_tasks, context, executor_calls, shell_calls, session_ids,
                 executor_errors, callbacks, store, candidate, validation,
                 topological_order, authored, evaluation, answered, extraction,
                 workflow_jobs, provider>>

\* run_job takes the limiter and JobRunner.run runs to its first suspension
\* point: the scope is set, the guard is evaluated, and a prompt job
\* interpolates its prompt, a goals job without commands builds its prompt
JobRunnerStarts(job_name) ==
    /\ tasks[job_name].state = "created"
    /\ ~locked(semaphore)
    /\ \E job \in ScopeJobs, should_run \in BOOLEAN :
         LET scope == set_current_job(output_dir(job_name))
             guard == IF job.guard_reads
                      THEN {Resolution(resolve_job(scope), scope)} ELSE {}
             prompt == IF should_run /\ job.mode = "prompt" /\ job.text_reads
                       THEN {Resolution(resolve_job(scope), scope)} ELSE {}
             goals == IF should_run /\ job.mode = "goals" /\ ~job.context /\ job.text_reads
                      THEN {Resolution(goals_output_dir(output_dir(job_name), scope), scope)}
                      ELSE {}
             state == IF ~should_run THEN "done"
                      ELSE IF job.context THEN "gather" ELSE "dispatch"
         IN  /\ current_job' = scope
             /\ resolutions' = [resolutions EXCEPT ![job_name] = @ \cup guard \cup prompt \cup goals]
             /\ tasks' = [tasks EXCEPT ![job_name].state = state]
             /\ semaphore' = IF state = "done" THEN semaphore ELSE semaphore - 1
    /\ UNCHANGED scope_frame

\* the side-channel commands of a goals job have returned: the prompt is
\* built from the goals, then the job is dispatched
GoalsContextGathered(job_name) ==
    /\ tasks[job_name].state = "gather"
    /\ \E text_reads \in BOOLEAN :
         resolutions' = [resolutions EXCEPT ![job_name] = @ \cup
                           IF text_reads
                           THEN {Resolution(goals_output_dir(output_dir(job_name), current_job),
                                            current_job)}
                           ELSE {}]
    /\ tasks' = [tasks EXCEPT ![job_name].state = "dispatch"]
    /\ UNCHANGED <<scope_frame, current_job, semaphore>>

\* provider.execute returns and the task ends; the limiter is released
ProviderReturns(job_name) ==
    /\ tasks[job_name].state = "dispatch"
    /\ tasks' = [tasks EXCEPT ![job_name].state = "done"]
    /\ semaphore' = release(semaphore)
    /\ UNCHANGED <<scope_frame, current_job, resolutions>>

NextScope ==
    \/ \E job_name \in Jobs : JobRunnerStarts(job_name)
    \/ \E job_name \in Jobs : GoalsContextGathered(job_name)
    \/ \E job_name \in Jobs : ProviderReturns(job_name)

SpecScope == InitScope /\ [][NextScope]_vars

\* C35: whatever the interleaving of the running jobs, every resolution of
\* job.output_dir made for a job, in its guard, in its prompt or in its
\* goals, gives the scratch directory of that job.
C35_OwnScratchDirectory ==
    \A J \in Jobs : \A r \in resolutions[J] : r.value = output_dir(J)

\* a job resolved job.output_dir to its own directory while the scope of the
\* shared context held the directory of another job, which was still running
C35_Witness ==
    \E J, K \in Jobs :
        /\ J # K
        /\ tasks[K].state \in {"gather", "dispatch"}
        /\ \E r \in resolutions[J] : r.value = output_dir(J) /\ r.scope = output_dir(K)

\* ----------------- execution/workflow_runner.py: a workflow run many times
\* the guards a job may carry when guards mention only the outputs and the
\* statuses of the job's transitive needs, and no builtin
NeedsGuards(needs_, job_name) ==
    {[kind |-> "none", job |-> None]}
    \cup [kind : {"status==completed", "outputs.x"}, job : AllNeeds(needs_, job_name)]

\* the workflows whose jobs are prompt jobs with such guards
NeedsWorkflows(needs_) ==
    {w \in [Jobs -> [mode : {"prompt"}, context : {FALSE}, if_condition : Guards]] :
        \A n \in Jobs : w[n].if_condition \in NeedsGuards(needs_, n)}

\* what a provider that always answers alike does with the dispatch of a job:
\* it succeeds and the output x is read from its answer, it reports a
\* failure, or it succeeds and leaves a sidecar file from which reading the
\* outputs raises
Answers ==
    {[kind |-> "completes",
      response |-> [success |-> TRUE, error |-> <<>>, input_tokens |-> 1, session_id |-> None],
      extracted |-> {<<"x", "1">>}],
     [kind |-> "fails",
      response |-> [success |-> FALSE, error |-> <<"exit code 1">>, input_tokens |-> 1,
                    session_id |-> None],
      extracted |-> {}],
     [kind |-> "raises",
      response |-> [success |-> TRUE, error |-> <<>>, input_tokens |-> 1, session_id |-> None],
      extracted |-> {}]}

\* run-all of a validated workflow whose definitions and whose provider are fixed
InitFixed ==
    /\ needs \in {f \in [Jobs -> SUBSET Jobs] : validate_workflow(f)}
    /\ max_concurrent_jobs \in 1..MaxLimit
    /\ dry_run = FALSE
    /\ single_job = None
    /\ workflow_jobs \in NeedsWorkflows(needs)
    /\ provider \in [Jobs -> Answers]
    /\ pc = "init"
    /\ run = [status |-> "none", job_results |-> <<>>, error_message |-> NoRunError]
    /\ pending = {}
    /\ running_tasks = {}
    /\ semaphore = max_concurrent_jobs
    /\ tasks = [n \in Jobs |-> NoTask]
    /\ context = ExpressionContext
    /\ executor_calls = [n \in Jobs |-> 0]
    /\ shell_calls = FALSE
    /\ session_ids = <<>>
    /\ executor_errors = [n \in Jobs |-> NoFailure]
    /\ callbacks = [n \in Jobs |-> <<>>]
    /\ store = WorkflowStore
    /\ candidate = NoCandidate
    /\ validation = Valid
    /\ topological_order = NotSorted
    /\ authored = NoExpression
    /\ evaluation = NotEvaluated
    /\ answered = NoResponse
    /\ extraction = NotExtracted
    /\ current_job = NoCurrentJob
    /\ resolutions = NothingResolved

\* run_job for the job as the workflow defines it
DefinedTaskStart(job_name) ==
    /\ pc = "wait"
    /\ tasks[job_name].state = "created"
    /\ ~locked(semaphore)
    /\ run_job(job_name, workflow_jobs[job_name], TRUE)
    /\ UNCHANGED <<inputs, pc, pending, running_tasks, executor_errors>>

\* provider.execute returns the answer the provider gives for the job
ProviderAnswers(job_name) ==
    /\ pc = "wait"
    /\ tasks[job_name].state = "dispatch"
    /\ provider[job_name].kind # "raises"
    /\ provider_returned(job_name, provider[job_name].response, provider[job_name].extracted)
    /\ UNCHANGED <<inputs, pending, running_tasks, executor_calls, shell_calls>>

\* provider.execute returns and reading the outputs raises
ProviderAnswerRaises(job_name) ==
    /\ provider[job_name].kind = "raises"
    /\ TaskRaises(job_name)

NextFixed ==
    \/ Run
    \/ RunDag
    \/ \E job_name \in Jobs : DefinedTaskStart(job_name)
    \/ \E job_name \in Jobs : ProviderAnswers(job_name)
    \/ \E job_name \in Jobs : ProviderAnswerRaises(job_name)
    \/ TasksDone
    \/ Finalize

SpecFixed == InitFixed /\ [][NextFixed]_vars

RECURSIVE reference(_)
\* the outcome of a job in the run in which a task that raises is the last to
\* end: a job below a failed or cascaded need is skipped by the cascade, a job
\* below a need that never settles stays pending, and a job whose needs are
\* settled is skipped by its guard, or ends as the provider answers
reference(n) ==
    LET refs == [d \in needs[n] |-> reference(d)]
        guard == workflow_jobs[n].if_condition
        holds == CASE guard.kind = "status==completed" ->
                         reference(guard.job).status = "completed"
                   [] guard.kind = "outputs.x" ->
                         \E p \in reference(guard.job).outputs : p[1] = "x" /\ is_truthy(p[2])
                   [] OTHER -> TRUE
    IN  IF \E d \in needs[n] : refs[d].status = "failed" \/ refs[d].cascade
        THEN [status |-> "skipped", outputs |-> {}, cascade |-> TRUE, raises |-> FALSE]
        ELSE IF \E d \in needs[n] : refs[d].status = "pending"
        THEN [status |-> "pending", outputs |-> {}, cascade |-> FALSE, raises |-> FALSE]
        ELSE IF ~holds
        THEN [status |-> "skipped", outputs |-> {}, cascade |-> FALSE, raises |-> FALSE]
        ELSE CASE provider[n].kind = "completes" ->
                    [status |-> "completed", outputs |-> provider[n].extracted,
                     cascade |-> FALSE, raises |-> FALSE]
               [] provider[n].kind = "fails" ->
                    [status |-> "failed", outputs |-> {}, cascade |-> FALSE, raises |-> FALSE]
               [] OTHER ->
                    [status |-> "pending", outputs |-> {}, cascade |-> FALSE, raises |-> TRUE]

\* the status of the run in that run
reference_run ==
    IF \E n \in Jobs : reference(n).raises \/ reference(n).status = "failed"
    THEN "failed" ELSE "completed"

\* the run has the outcome of the reference run
AsReference ==
    /\ run.status = reference_run
    /\ \A n \in Jobs :
          /\ status(n) = reference(n).status
          /\ result_of(n).outputs = reference(n).outputs

\* C36: with the definitions of the workflow and the answers of the provider
\* fixed, the statuses and outputs of the jobs and the status of the run are
\* the same when run() returns, whatever the order in which tasks end and
\* whatever the limit: they are those of the reference run.
C36_Original == pc = "returned" => AsReference

\* the reference run is a run: run() has returned after the task of a job
\* raised, with another job completed, and the outcome is the reference one
C36_Witness ==
    /\ pc = "returned"
    /\ AsReference
    /\ \E n, m \in Jobs :
          /\ tasks[n].state = "raised"
          /\ status(m) = "completed"

\* when no answer of the provider raises, every run has the reference outcome
C36_WithoutRaise ==
    (pc = "returned" /\ \A n \in Jobs : provider[n].kind # "raises") => AsReference

\* the job tasks that have been created and have not ended
InFlight == {n \in Jobs : tasks[n].state \in {"created", "gather", "dispatch"}}

\* C37: when run() has returned, on every path, no job task of the run is
\* still in flight.
C37_Original == pc = "returned" => InFlight = {}

\* C38: at the end of run-all, for every job with a terminal status in the
\* run, the context holds that same status, the jobs skipped by the failure
\* cascade included.
C38_Original ==
    (RunAll /\ pc = "returned") =>
        \A n \in Jobs :
            status(n) \in Terminal => resolve_status(context, n) = status(n)

\* the three places of a job at the top of the while loop of _run_dag
InPending(n) == n \in pending /\ status(n) = "pending"
InRunning(n) == n \in running_tasks
Settled(n) == status(n) \in Terminal

\* C39: in run-all, at the top of every pass of the loop, each job is in
\* exactly one place: pending (and recorded pending), running, or settled;
\* pending and running are disjoint; a job that left the pending set never
\* returns to it, and a job that has a task is never given another.
C39_OnePlacePerJob ==
    /\ [](RunAll /\ pc = "dag" =>
            /\ pending \cap running_tasks = {}
            /\ \A n \in Jobs :
                 /\ InPending(n) \/ InRunning(n) \/ Settled(n)
                 /\ n \in pending => InPending(n)
                 /\ ~(InPending(n) /\ InRunning(n))
                 /\ ~(InPending(n) /\ Settled(n))
                 /\ ~(InRunning(n) /\ Settled(n)))
    /\ [](RunAll => \A n \in pending : tasks[n].state = "none")
    /\ [][RunAll => /\ pending' \subseteq pending
                    /\ \A n \in Jobs :
                         tasks[n].state # "none" =>
                            /\ tasks'[n].state # "none"
                            /\ tasks'[n].state = "created" => tasks[n].state = "created"]_vars

\* the top of a pass with one job pending, one running and one settled
C39_Witness ==
    /\ RunAll /\ pc = "dag"
    /\ \E a, b, c \in Jobs :
          /\ InPending(a) /\ tasks[a].state = "none"
          /\ InRunning(b) /\ tasks[b].state # "none"
          /\ Settled(c) /\ c \notin pending \cup running_tasks

\* C40: one complete run() raises total_runs of the workflow's statistics by
\* exactly 1, however many times the run is saved.
C40_Original == pc = "returned" => store.stats.total_runs = 1

====
